---- MODULE Spec2Model ----
(***************************************************************************)
(* A model of the TDS protocol engine of the MSSQL backend: the            *)
(* Connection (handshake, send with fragmentation, flush_stream, the       *)
(* packet-to-byte reader), the TokenStream iterator and the folds built    *)
(* on it (flush_done, ExecuteResult, QueryStream, the bulk_insert column   *)
(* fold).                                                                  *)
(*                                                                         *)
(* The program is single threaded.  A call is modelled by its steps: the   *)
(* entry point in progress (op), the index of the current step of its body *)
(* (ip, into Plan(op)) and the position inside that step (sub).  A step    *)
(* boundary is placed at every call of Connection::next, the one place     *)
(* where the program blocks on the server.                                 *)
(*                                                                         *)
(* The server is the environment.  The packets of a response are chosen    *)
(* when the client asks the transport for the next packet; the payload is  *)
(* a run of token units (a token is a tag unit followed by a body unit)    *)
(* cut at arbitrary unit boundaries.                                       *)
(***************************************************************************)
EXTENDS Integers, Sequences, FiniteSets, TLC

(***************************** bounds **************************************)
MaxPackets == 3      \* packets the server puts into one response
MaxPayload == 2      \* units carried by one incoming packet
MaxRequests == 2     \* entry-point calls after connect
MaxMsgLen == 3       \* bytes of an encoded outgoing message
MaxWire == 4         \* packets written for one message before the model stops
MaxRows == 2         \* rows sent through one BulkLoadRequest
MaxFlight == 2       \* bytes of one flight of the TLS handshake
MaxBody == 2         \* payload bytes of one packet given to the framing layer
MaxFrames == 2       \* frames on the stream under the framing layer
MaxCalls == 3        \* items taken from the packet iterator
MaxText == 2         \* characters of the SQL text of a parameterized query
MaxParams == 2       \* values bound to a parameterized query
MaxChars == 2        \* characters of a string and bytes of a binary value encoded
MaxDepth == 3        \* nested transactions opened by the caller

(************************* program constants *******************************)
HEADER_BYTES == 8
DEFAULT_SEND_HIGH_WATER_MARK == 131072
DefaultPacketSize == 4096
ExemptCode == 266
DeadlockCode == 1205

\* the codes of the ERROR tokens a server sends in the model
ErrorCodes == {ExemptCode, DeadlockCode}

EncryptionLevels == {"Off", "On", "NotSupported", "Required"}

(****************************** tokens *************************************)
Tok(ty, kind, a, b) == [ty |-> ty, kind |-> kind, a |-> a, b |-> b]
NoTok == Tok("none", "", 0, 0)

\* the token types try_unfold dispatches on
ImplementedTypes ==
    {"ReturnStatus", "ColMetaData", "Row", "NbcRow", "Done", "DoneProc",
     "DoneInProc", "ReturnValue", "Error", "Order", "EnvChange", "Info",
     "LoginAck", "Sspi", "FeatureExtAck"}

\* the status words BitFlags::from_bits accepts (subsets of the DoneStatus bits)
DoneMore == 1
DoneCount == 16
ValidDoneStatus == {0, DoneMore, DoneCount}

\* the tokens a server sends in the model: a, b are the fields the code reads
ServerTokens ==
    {Tok("Error", "", c, 0) : c \in ErrorCodes}
    \cup {Tok("Done", "", 0, 1)}
    \cup {Tok("DoneProc", "", 0, 1), Tok("DoneInProc", "", DoneCount, 1)}
    \cup {Tok("EnvChange", "Routing", 1, 0)}
    \cup {Tok("ColMetaData", "", 1, 0), Tok("Row", "", 1, 0)}
    \cup {Tok("Invalid", "", 0, 0)}

Unit(t, i) == [t |-> t, i |-> i]

(****************************** errors *************************************)
Err(kind, code, msg) == [kind |-> kind, code |-> code, msg |-> msg]
NoErr == Err("none", 0, "")
ServerError(code) == Err("Server", code, "")
NeverDone == Err("Protocol", 0, "Never got DONE token.")
InvalidTokenType == Err("Protocol", 0, "invalid token type")
InvalidDoneStatus == Err("Protocol", 0, "done(variant): invalid status")
NoColumnMetadata == Err("Protocol", 0, "expecting column metadata from query but not found")
\* Error::Routing { host, port }
RoutingError(host, port) ==
    [kind |-> "Routing", code |-> 0, msg |-> "", host |-> host, port |-> port]
BrokenPipe == Err("Io", 0, "BrokenPipe")
UnexpectedEof == Err("Io", 0, "No more packets in the wire")
TransportError == Err("Io", 0, "transport")
TlsError == Err("Tls", 0, "")
DecodeError == Err("Protocol", 0, "prelogin")
EncodeError == Err("Encoding", 0, "")

\* Error::code
ErrCode(e) == IF e.kind = "Server" THEN e.code ELSE -1

\* items of the token iterator: Some(Ok(token)), Some(Err(e)), None
Item(k, tok, e) == [k |-> k, tok |-> tok, e |-> e]
ItemOk(tok) == Item("Ok", tok, NoErr)
ItemErr(e) == Item("Err", NoTok, e)
ItemNone == Item("None", NoTok, NoErr)
NoItem == Item("empty", NoTok, NoErr)

(***************************** variables ***********************************)
VARIABLES
    phase,          \* handshake state reached by Connection::connect
    op,             \* entry point in progress, "none" between calls
    ip,             \* index of the current step in Plan(op)
    sub,            \* position inside the current step
    transport,      \* "Raw" or "Tls": the stream under the framing layer
    enc,            \* the negotiated EncryptionLevel held by connect
    flushed,        \* Connection.flushed
    buf,            \* Connection.buf, the leftover payload
    context,        \* Connection.context
    payload,        \* Connection::send: the bytes not yet written
    header,         \* Connection::send: the header being reused
    msg,            \* the encoded message given to the current send
    wire,           \* the packets written for the current message
    srv,            \* the server: responses owed, packet budget, token cut
    ts,             \* TokenStream.last_error
    fd,             \* flush_done: last_error and routing
    rows_affected,  \* ExecuteResult::new: rows_affected
    columns,        \* bulk_insert: the columns folded from the first response
    qs,             \* QueryStream
    yielded,        \* the item the token iterator has just returned
    errs,           \* the codes of the ERROR tokens decoded by the current TokenStream
    ret,            \* the last return of flush_stream / flush_done
    discarded,      \* flush_stream: the packets discarded by the current call
    result,         \* the result of the last entry point
    hs,             \* the handshake events of connect, in order
    nreq,           \* entry-point calls made so far
    req,            \* the request built by the entry point for the current send
    ndec,           \* tokens of the scripted response decoded so far
    bulk,           \* the BulkLoadRequest held by the caller
    shim,           \* the TlsPreloginWrapper and the TLS session over it
    items,          \* the items the current QueryStream has yielded to its caller
    sent,           \* the id of the last message written, and the ids skipped since
    framed_read,    \* a FramedReadBuffer over a byte stream, on its own
    framed_write,   \* a FramedWriteBuffer over a byte stream, on its own
    call            \* a codec function applied on its own: its input and its result

vars == <<phase, op, ip, sub, transport, enc, flushed, buf, context, payload,
          header, msg, wire, srv, ts, fd, rows_affected, columns, qs, yielded,
          errs, ret, discarded, result, hs, nreq, req, ndec, bulk, shim, items,
          sent, framed_read, framed_write, call>>

ctlVars == <<phase, op, ip, sub, result>>
connVars == <<transport, enc, flushed, buf, context>>
sendVars == <<payload, header, msg, wire>>
foldVars == <<fd, rows_affected, columns, qs>>
codecVars == <<framed_read, framed_write, call>>

\* no framing layer and no codec function is being exercised on its own
NoFramedRead == [stream |-> <<>>]
NoFramedWrite == [buffer |-> <<>>]
NoCall == [fn |-> "none"]
NoCodec == framed_read = NoFramedRead /\ framed_write = NoFramedWrite /\ call = NoCall
otherVars == <<bulk, shim, items, sent, codecVars>>

(************************* entry points and plans **************************)
ExecuteOps == {"Client::execute", "Query::execute", "get_results"}
RpcQueryOps == {"Client::query", "Query::query", "get_query_stream"}
EntryPoints == ExecuteOps \cup RpcQueryOps \cup {"Client::simple_query", "Client::bulk_insert"}

\* entry points that write the request without flushing the stream first
PlanNoFlush(o) ==
    CASE o = "connect" ->
            <<"send_prelogin", "collect_prelogin", "tls_handshake", "send_login", "flush_done">>
      [] o \in ExecuteOps -> <<"send_rpc", "execute_result">>
      [] o \in RpcQueryOps -> <<"send_rpc", "forward_to_metadata">>
      [] o = "Client::simple_query" -> <<"send_batch", "forward_to_metadata">>
      [] o = "Client::bulk_insert" ->
            <<"send_batch", "try_fold", "send_batch", "flush_done", "bulk_new">>
      [] o = "QueryStream::next" -> <<"qs_next">>
      [] o = "QueryStream::columns" -> <<"qs_columns">>
      [] o = "Connection::send" -> <<"send_rpc">>
      [] o = "Client::rpc_perform_query" -> <<"rpc_params", "rpc_perform", "send_rpc">>
      [] o = "BulkLoadRequest::finalize" -> <<"bulk_finalize", "execute_result">>
      [] OTHER -> <<>>

\* a connect that sends LOGIN before it reads the PRELOGIN response
PlanLoginFirst(o) ==
    CASE o = "connect" ->
            <<"send_prelogin", "send_login", "collect_prelogin", "tls_handshake", "flush_done">>
      [] o \in ExecuteOps ->
            <<"flush_stream", "send_rpc", "execute_result">>
      [] o \in RpcQueryOps ->
            <<"flush_stream", "send_rpc", "forward_to_metadata">>
      [] o = "Client::simple_query" ->
            <<"flush_stream", "send_batch", "forward_to_metadata">>
      [] o = "Client::bulk_insert" ->
            <<"flush_stream", "send_batch", "try_fold", "flush_stream", "send_batch",
              "flush_done", "bulk_new">>
      [] o = "QueryStream::next" -> <<"qs_next">>
      [] o = "QueryStream::columns" -> <<"qs_columns">>
      [] o = "Connection::send" -> <<"send_rpc">>
      [] o = "Client::rpc_perform_query" -> <<"rpc_params", "rpc_perform", "send_rpc">>
      [] o = "BulkLoadRequest::finalize" -> <<"bulk_finalize", "execute_result">>
      [] OTHER -> <<>>

\* the body of each entry point as the sequence of calls it makes
Plan(o) ==
    CASE o = "connect" ->
            <<"send_prelogin", "collect_prelogin", "tls_handshake", "send_login", "flush_done">>
      [] o \in ExecuteOps ->
            <<"flush_stream", "send_rpc", "execute_result">>
      [] o \in RpcQueryOps ->
            <<"flush_stream", "send_rpc", "forward_to_metadata">>
      [] o = "Client::simple_query" ->
            <<"flush_stream", "send_batch", "forward_to_metadata">>
      [] o = "Client::bulk_insert" ->
            <<"flush_stream", "send_batch", "try_fold", "flush_stream", "send_batch",
              "flush_done", "bulk_new">>
      [] o = "QueryStream::next" -> <<"qs_next">>
      [] o = "QueryStream::columns" -> <<"qs_columns">>
      [] o = "Connection::send" -> <<"send_rpc">>
      [] o = "Client::rpc_perform_query" -> <<"rpc_params", "rpc_perform", "send_rpc">>
      [] o = "BulkLoadRequest::finalize" -> <<"bulk_finalize", "execute_result">>
      [] OTHER -> <<>>

Step == IF op = "none" \/ ip = 0 THEN "none" ELSE Plan(op)[ip]

SendSteps == {"send_prelogin", "send_login", "send_rpc", "send_batch"}
FoldSteps == {"flush_done", "execute_result", "try_fold", "forward_to_metadata", "qs_next",
              "qs_columns"}

\* PacketHeader::pre_login / login / rpc / batch
HeaderFor(step, id) ==
    CASE step = "send_prelogin" -> [ty |-> "PreLogin", status |-> "EndOfMessage", id |-> id]
      [] step = "send_login" -> [ty |-> "TDSv7Login", status |-> "EndOfMessage", id |-> id]
      [] step = "send_rpc" -> [ty |-> "Rpc", status |-> "NormalMessage", id |-> id]
      [] OTHER -> [ty |-> "SQLBatch", status |-> "NormalMessage", id |-> id]

(****************************** Init ***************************************)
\* Context::new
NewContext ==
    [packet_size |-> DefaultPacketSize, packet_id |-> 0, transaction_desc |-> 0,
     last_meta |-> 0]

NoHeader == [ty |-> "none", status |-> "none", id |-> 0]
NoRet == [fn |-> "none", ok |-> TRUE, err |-> NoErr, tok |-> NoTok]
NoResult == [op |-> "none", ok |-> TRUE, err |-> NoErr, item |-> NoItem]
NewQueryStream == [alive |-> FALSE, peeked |-> NoItem, columns |-> 0, result_set_index |-> -1]
NewFlushDone == [last_error |-> NoTok, routing |-> NoErr]
NoneDiscarded == [n |-> 0, bad |-> FALSE, changing |-> FALSE]
NoQuery == [text |-> "", cols |-> <<>>]
NoReq == [kind |-> "none", desc |-> 0, query |-> NoQuery]
NoBulk == [alive |-> FALSE, packet_id |-> 0, buf |-> <<>>, rows |-> 0, columns |-> <<>>]
NoShim ==
    [backend |-> "none", pending_handshake |-> FALSE, wr_buf |-> <<>>,
     header_read |-> FALSE, read_remaining |-> 0, stage |-> "none", written |-> 0,
     got |-> 0]
NoneSent == [last |-> -1, skipped |-> 0]

\* a server that answers a request with any packets; fresh: the packet the
\* Connection received last carried EndOfMessage and it has written none since
FreeServer ==
    [resp |-> 0, left |-> MaxPackets, tok |-> NoTok, closed |-> FALSE,
     mode |-> "free", script |-> <<>>, full |-> <<>>, queue |-> <<>>, fresh |-> FALSE]

\* the same server once the response to LOGIN has been read
ReadyServer == [FreeServer EXCEPT !.fresh = TRUE]

\* the state in which Connection::connect is entered
Init ==
    /\ phase = "Disconnected"
    /\ op = "connect" /\ ip = 1 /\ sub = "start"
    /\ transport = "Raw"
    /\ enc = "none"
    /\ flushed = FALSE
    /\ buf = <<>>
    /\ context = NewContext
    /\ payload = <<>> /\ header = NoHeader /\ msg = <<>> /\ wire = <<>>
    /\ srv = FreeServer
    /\ ts = NoErr
    /\ fd = NewFlushDone
    /\ rows_affected = <<>>
    /\ columns = 0
    /\ qs = NewQueryStream
    /\ yielded = NoItem
    /\ errs = <<>>
    /\ ret = NoRet
    /\ discarded = NoneDiscarded
    /\ result = NoResult
    /\ hs = <<>>
    /\ nreq = 0
    /\ req = NoReq
    /\ ndec = 0
    /\ bulk = NoBulk
    /\ shim = NoShim
    /\ NoCodec
    /\ items = <<>>
    /\ sent = NoneSent

(************************** control helpers ********************************)
\* the entry point returns to its caller
Finish(ok, e, it) ==
    /\ op' = "none" /\ ip' = 0 /\ sub' = "idle"
    /\ phase' = IF op = "connect" THEN (IF ok THEN "Ready" ELSE "Failed") ELSE phase
    /\ result' = [op |-> op, ok |-> ok, err |-> e, item |-> it]

\* stay in the current step, at position s, in handshake state p
Goto(s, p) == op' = op /\ ip' = ip /\ sub' = s /\ phase' = p /\ result' = result
Stay(s) == Goto(s, phase)

\* the current step returned Ok: go to the next one, or return Ok
StepOkP(p) ==
    IF ip = Len(Plan(op))
    THEN Finish(TRUE, NoErr, NoItem)
    ELSE op' = op /\ ip' = ip + 1 /\ sub' = "start" /\ phase' = p /\ result' = result
StepOk == StepOkP(phase)

\* the current step returned Err(e), which `?` propagates
StepErr(e) == Finish(FALSE, e, NoItem)

Ret(fn, ok, e, tok) == [fn |-> fn, ok |-> ok, err |-> e, tok |-> tok]

Min(a, b) == IF a <= b THEN a ELSE b

(****************************** the server *********************************)
\* the unit runs of length n the server can put next on the wire
RECURSIVE Payloads(_, _)
Payloads(pending, n) ==
    IF n = 0 THEN {<<>>}
    ELSE IF pending # NoTok
         THEN {<<Unit(pending, 2)>> \o s : s \in Payloads(NoTok, n - 1)}
         ELSE UNION {{<<Unit(t, 1)>> \o s : s \in Payloads(t, n - 1)} : t \in ServerTokens}

PendingAfter(pending, data) ==
    IF data = <<>> THEN pending
    ELSE IF data[Len(data)].i = 1 THEN data[Len(data)].t ELSE NoTok

Event(k, last, data) == [k |-> k, last |-> last, data |-> data]

\* the units of a run of tokens
RECURSIVE Flatten(_)
Flatten(tokens) ==
    IF tokens = <<>> THEN <<>>
    ELSE <<Unit(Head(tokens), 1), Unit(Head(tokens), 2)>> \o Flatten(Tail(tokens))

\* what a scripted server has still to send of the current response
Remaining ==
    (IF srv.tok # NoTok THEN <<Unit(srv.tok, 2)>> ELSE <<>>) \o Flatten(srv.script)

\* the packets a scripted server can send next: the next units of the script;
\* the end of the message is the packet that carries the last of them, or a
\* packet with an empty payload after it
ScriptedPackets ==
    LET rem == Remaining
    IN  {Event("packet", n = Len(rem), SubSeq(rem, 1, n)) :
             n \in (IF rem = <<>> THEN {0} ELSE 1..Min(MaxPayload, Len(rem)))}
        \cup {Event("packet", FALSE, rem) : n \in {Len(rem)} \cap 1..MaxPayload}

\* the tokens that start in a payload
Tags(data) == Cardinality({i \in 1..Len(data) : data[i].i = 1})

\* Framed::next on the transport: a packet, an error, end of stream, or no
\* answer at all when the server owes nothing
TransportNext ==
    IF srv.closed THEN {Event("eof", FALSE, <<>>)}
    ELSE IF srv.resp = 0 THEN {Event("blocked", FALSE, <<>>)}
    ELSE IF srv.mode = "scripted" THEN ScriptedPackets
    ELSE {Event("packet", l, d) :
              l \in (IF srv.left = 1 THEN {TRUE} ELSE BOOLEAN),
              d \in UNION {Payloads(srv.tok, n) : n \in 0..MaxPayload}}
         \cup {Event("eof", FALSE, <<>>), Event("error", FALSE, <<>>)}

SrvAfter(ev) ==
    CASE ev.k = "packet" /\ ev.last ->
            [srv EXCEPT !.resp = @ - 1, !.left = MaxPackets, !.tok = NoTok,
                        !.script = <<>>, !.fresh = TRUE]
      [] ev.k = "packet" /\ ~ev.last ->
            [srv EXCEPT !.left = IF srv.mode = "free" THEN @ - 1 ELSE @,
                        !.tok = PendingAfter(srv.tok, ev.data),
                        !.script = SubSeq(@, Tags(ev.data) + 1, Len(@)), !.fresh = FALSE]
      [] ev.k \in {"eof", "error"} -> [srv EXCEPT !.closed = TRUE]
      [] OTHER -> srv

\* the response of a server that has nothing scripted: the end of the batch
QuietScript == <<Tok("Done", "", 0, 0)>>

\* the message was flushed to the server, which owes its response
Answering(s) ==
    IF s.mode = "scripted"
    THEN LET next == IF s.queue = <<>> THEN QuietScript ELSE Head(s.queue)
         IN  [s EXCEPT !.resp = @ + 1, !.script = next, !.full = next,
                       !.queue = IF @ = <<>> THEN <<>> ELSE Tail(@)]
    ELSE [s EXCEPT !.resp = @ + 1]

\* Connection::next: flushed follows the status of the packet received
NextFlushed(ev) == IF ev.k = "packet" THEN ev.last ELSE flushed

(*************************** Connection::send ******************************)
Messages == UNION {[1..n -> {0, 1}] : n \in 1..MaxMsgLen}

\* the encoded requests of the entry points: a short and a long message
RequestMessages == {<<1>>, [i \in 1..MaxMsgLen |-> i % 2]}

\* the messages an entry point hands to Connection::send
Outgoing(o) == IF o = "Connection::send" THEN Messages ELSE RequestMessages

\* a counter wider than a byte
NextPacketIdWide(id) == id + 1

\* Context::next_packet_id
NextPacketId(id) == (id + 1) % 256

\* a request built with the all-zero descriptor
NewRequestOutside(step, ctx) == [kind |-> step, desc |-> 0]

\* BatchRequest::new and the RPC request of rpc_perform_query: the transaction
\* descriptor of the Context goes into the request
NewRequest(step, ctx) ==
    [kind |-> step,
     desc |-> IF step \in {"send_rpc", "send_batch"} THEN ctx.transaction_desc ELSE 0]

\* MetaDataColumn: its name, and whether its flags contain ColumnFlag::Updateable
Col(name, updateable) == [name |-> name, updateable |-> updateable]

\* the column lists that COLMETADATA tokens carry, by the number that stands
\* for the list in a token of the model
ColumnsOf(cols) ==
    CASE cols = 1 -> <<Col(1, TRUE)>>
      [] cols = 2 -> <<Col(1, FALSE), Col(2, TRUE)>>
      [] cols = 3 -> <<Col(1, TRUE), Col(2, FALSE), Col(3, TRUE)>>
      [] cols = 4 -> <<Col(1, FALSE)>>
      [] OTHER -> <<>>

\* a bulk_insert that keeps every column of the table
UpdateableOrNot(cols) == cols

\* bulk_insert: .filter(|column| column.base.flags.contains(ColumnFlag::Updateable))
Updateable(cols) == SelectSeq(cols, LAMBDA c : c.updateable)

\* columns.iter().map(|c| format!("{}", c)).join(", ")
ColData(cols) == [i \in 1..Len(cols) |-> cols[i].name]

\* the SQL text of the batch an entry point sends in step i of its plan
QueryOf(o, i, cols) ==
    IF o = "Client::bulk_insert" /\ i = 2 THEN [text |-> "SELECT TOP 0 * FROM", cols |-> <<>>]
    ELSE IF o = "Client::bulk_insert" /\ i = 5
         THEN [text |-> "INSERT BULK", cols |-> ColData(Updateable(ColumnsOf(cols)))]
         ELSE NoQuery

\* the request with its SQL text
WithQuery(r, query) == [kind |-> r.kind, desc |-> r.desc, query |-> query]

\* a send that forgets the header when it sizes a packet
WritableWithHeader(len, packet_size) == Min(len, packet_size + HEADER_BYTES)

\* cmp::min(payload.len(), packet_size)
Writable(len, packet_size) == Min(len, packet_size)

\* a send that marks every packet as the last one
StatusAlwaysLast(rest) == "EndOfMessage"

\* the status set on the header once split_to has taken the packet's bytes
StatusFor(rest) == IF rest = <<>> THEN "EndOfMessage" ELSE "NormalMessage"

PhaseFor(step) ==
    CASE step = "send_prelogin" -> "PreLogin"
      [] step = "send_login" -> "LoggingIn"
      [] OTHER -> phase

\* item.encode(&mut payload)?: the RPC request carries the values the caller
\* has bound, and a value may fail to encode
EncodeOutcomes(step) == IF step = "send_rpc" THEN BOOLEAN ELSE {TRUE}

\* the caller takes the next packet id for the header, and send up to the
\* loop: the flag, and the item encoded into the payload
SendBegin ==
    /\ Step \in SendSteps /\ sub = "start"
    /\ header' = HeaderFor(Step, context.packet_id)
    /\ context' = [context EXCEPT !.packet_id = NextPacketId(@)]
    /\ flushed' = FALSE
    /\ wire' = <<>>
    /\ \E encoded \in EncodeOutcomes(Step) :
          IF encoded
          THEN /\ \E m \in Outgoing(op) : msg' = m /\ payload' = m
               /\ Goto("loop", PhaseFor(Step))
               /\ req' = WithQuery(NewRequest(Step, context), QueryOf(op, ip, columns))
               /\ sent' = sent
          ELSE /\ msg' = <<>> /\ payload' = <<>>
               /\ StepErr(EncodeError)
               /\ req' = NoReq
               /\ sent' = [sent EXCEPT !.skipped = @ + 1]
    /\ hs' = IF op = "connect" THEN Append(hs, Step) ELSE hs
    /\ yielded' = NoItem /\ ret' = NoRet /\ discarded' = NoneDiscarded
    /\ UNCHANGED <<transport, enc, buf, srv, ts, foldVars, errs, nreq, ndec, bulk, shim,
                   items, codecVars>>

\* the first packet of a message with this id is written
Began(id) == [last |-> id, skipped |-> 0]

SendLoop ==
    /\ Step \in SendSteps /\ sub = "loop"
    /\ payload # <<>>
    /\ Len(wire) < MaxWire
    /\ LET packet_size == context.packet_size - HEADER_BYTES
           writable == Writable(Len(payload), packet_size)
           split_payload == SubSeq(payload, 1, writable)
           rest == SubSeq(payload, writable + 1, Len(payload))
           h == [header EXCEPT !.status = StatusFor(rest)]
       IN  /\ payload' = rest
           /\ header' = h
           /\ wire' = Append(wire, [header |-> h, data |-> split_payload])
           /\ sent' = IF wire = <<>> THEN Began(h.id) ELSE sent
    /\ flushed' = FALSE
    /\ srv' = [srv EXCEPT !.fresh = FALSE]
    /\ Stay("loop")
    /\ UNCHANGED <<transport, enc, buf, context, msg, ts, foldVars, yielded,
                   errs, ret, discarded, hs, nreq, req, ndec, bulk, shim, items, codecVars>>

\* the authentication methods of Connection::login
AuthMethods == {"None", "SqlServer", "AADToken", "Integrated", "Windows"}

\* a login that never gives the TLS stream up
PostLoginKeeps(t, encryption) == t

\* Connection::post_login_encryption
PostLoginEncryption(t, encryption) == IF encryption = "Off" THEN "Raw" ELSE t

\* flush_sink, and for LOGIN the post_login_encryption that follows the send
SendFlush ==
    /\ Step \in SendSteps /\ sub = "loop"
    /\ payload = <<>>
    /\ srv' = Answering(srv)
    /\ \E auth \in AuthMethods :
          transport' = IF Step = "send_login"
                       THEN PostLoginEncryption(transport, enc)
                       ELSE transport
    /\ payload' = <<>> /\ header' = NoHeader /\ msg' = <<>> /\ wire' = <<>>
    /\ req' = NoReq /\ ndec' = 0
    /\ StepOk
    /\ UNCHANGED <<enc, flushed, buf, context, ts, foldVars, yielded, errs, ret,
                   discarded, hs, nreq, otherVars>>

(************************** Connection::connect ****************************)
\* codec::collect_from on the PRELOGIN response, then PreloginMessage::decode
CollectPrelogin ==
    /\ Step = "collect_prelogin" /\ sub = "start"
    /\ \E ev \in TransportNext :
        /\ srv' = SrvAfter(ev)
        /\ flushed' = NextFlushed(ev)
        /\ CASE ev.k = "packet" /\ ~ev.last -> Stay("start") /\ hs' = hs
             [] (ev.k = "packet" /\ ev.last) \/ ev.k = "eof" ->
                    \E decoded \in BOOLEAN :
                        IF decoded
                        THEN StepOk /\ hs' = Append(hs, "prelogin_response")
                        ELSE StepErr(DecodeError) /\ hs' = hs
             [] ev.k = "error" -> StepErr(TransportError) /\ hs' = hs
             [] OTHER -> Stay("blocked") /\ hs' = hs
    /\ UNCHANGED <<transport, enc, buf, context, sendVars, ts, foldVars, yielded, errs,
                   ret, discarded, nreq, req, ndec, otherVars>>

\* a tls_handshake that wraps the stream whatever the negotiated level
HandshakeAlways(tlsFeature, level) == tlsFeature

\* whether tls_handshake wraps the stream for the negotiated level
HandshakeNeeded(tlsFeature, level) == tlsFeature /\ level # "NotSupported"

\* prelogin.negotiated_encryption, then Connection::tls_handshake
TlsHandshake ==
    /\ Step = "tls_handshake" /\ sub = "start"
    /\ \E level \in EncryptionLevels, tlsFeature \in BOOLEAN, created \in BOOLEAN :
        /\ enc' = level
        /\ IF HandshakeNeeded(tlsFeature, level)
           THEN IF created
                THEN /\ transport' = "Tls"
                     /\ flushed' = FALSE
                     /\ buf' = <<>>
                     /\ hs' = Append(hs, "tls_handshake")
                     /\ StepOkP("TlsHandshake")
                ELSE /\ StepErr(TlsError)
                     /\ UNCHANGED <<transport, flushed, buf, hs>>
           ELSE /\ created
                /\ StepOk
                /\ UNCHANGED <<transport, flushed, buf, hs>>
    /\ UNCHANGED <<context, sendVars, srv, ts, foldVars, yielded, errs, ret, discarded,
                   nreq, req, ndec, otherVars>>

(************************ Connection::flush_stream *************************)
\* self.buf.truncate(0)
Truncated(b) == <<>>

\* whether a payload holds bytes that are no token
Malformed(data) == \E i \in 1..Len(data) : data[i].t.ty = "Invalid"

\* a flush_stream that decoded what it discards
FlushOutcomeDecoding(ev) ==
    CASE ev.k = "packet" /\ Malformed(ev.data) -> [k |-> "err", e |-> InvalidTokenType]
      [] ev.k = "packet" /\ ~ev.last -> [k |-> "continue", e |-> NoErr]
      [] ev.k = "packet" /\ ev.last -> [k |-> "ok", e |-> NoErr]
      [] ev.k = "eof" -> [k |-> "ok", e |-> NoErr]
      [] ev.k = "error" -> [k |-> "err", e |-> TransportError]
      [] OTHER -> [k |-> "blocked", e |-> NoErr]

\* one turn of the loop of flush_stream: `?` on an error, break on the packet
\* that is_last, the end of the loop when the stream has ended
FlushOutcome(ev) ==
    CASE ev.k = "packet" /\ ~ev.last -> [k |-> "continue", e |-> NoErr]
      [] ev.k = "packet" /\ ev.last -> [k |-> "ok", e |-> NoErr]
      [] ev.k = "eof" -> [k |-> "ok", e |-> NoErr]
      [] ev.k = "error" -> [k |-> "err", e |-> TransportError]
      [] OTHER -> [k |-> "blocked", e |-> NoErr]

\* a decoder that leaves the Context alone
ContextUntouched(ctx, token) == ctx

\* get_env_change and get_col_metadata: the side effects on the Context
ContextAfter(ctx, token) ==
    CASE token.ty = "EnvChange" /\ token.kind = "PacketSize" ->
            [ctx EXCEPT !.packet_size = token.a]
      [] token.ty = "EnvChange" /\ token.kind = "BeginTransaction" ->
            [ctx EXCEPT !.transaction_desc = token.a]
      [] token.ty = "EnvChange"
         /\ token.kind \in {"CommitTransaction", "RollbackTransaction", "DefectTransaction"} ->
            [ctx EXCEPT !.transaction_desc = 0]
      [] token.ty = "ColMetaData" -> [ctx EXCEPT !.last_meta = token.a]
      [] OTHER -> ctx

\* whether a payload starts a token whose decoding would change the Context
Changing(ctx, data) ==
    \E i \in 1..Len(data) : data[i].i = 1 /\ ContextAfter(ctx, data[i].t) # ctx

\* a flush_stream that decodes the tokens of the packets it discards
RECURSIVE DecodedDropped(_, _)
DecodedDropped(ctx, data) ==
    IF data = <<>> THEN ctx
    ELSE DecodedDropped(IF Head(data).i = 1 THEN ContextAfter(ctx, Head(data).t) ELSE ctx,
                        Tail(data))

\* the Context after flush_stream has taken a packet from Connection::next:
\* only is_last is read, the payload went to buf and is never decoded
Dropped(ctx, data) == ctx

FlushStreamStart ==
    /\ Step = "flush_stream" /\ sub = "start"
    /\ buf' = Truncated(buf)
    /\ discarded' = NoneDiscarded
    /\ yielded' = NoItem
    /\ IF flushed
       THEN StepOk /\ ret' = Ret("flush_stream", TRUE, NoErr, NoTok)
       ELSE Stay("loop") /\ ret' = ret
    /\ UNCHANGED <<transport, enc, flushed, context, sendVars, srv, ts, foldVars, errs,
                   hs, nreq, req, ndec, otherVars>>

FlushStreamLoop ==
    /\ Step = "flush_stream" /\ sub = "loop"
    /\ \E ev \in TransportNext :
        /\ srv' = SrvAfter(ev)
        /\ flushed' = NextFlushed(ev)
        /\ discarded' = IF ev.k = "packet"
                        THEN [n |-> discarded.n + 1,
                              bad |-> \/ discarded.bad
                                      \/ Malformed(ev.data)
                                      \/ ev.last /\ PendingAfter(srv.tok, ev.data) # NoTok,
                              changing |-> discarded.changing \/ Changing(context, ev.data)]
                        ELSE discarded
        /\ context' = IF ev.k = "packet" THEN Dropped(context, ev.data) ELSE context
        /\ LET out == FlushOutcome(ev)
           IN  CASE out.k = "continue" -> Stay("loop") /\ ret' = ret
                 [] out.k = "ok" ->
                        StepOk /\ ret' = Ret("flush_stream", TRUE, NoErr, NoTok)
                 [] out.k = "err" ->
                        StepErr(out.e) /\ ret' = Ret("flush_stream", FALSE, out.e, NoTok)
                 [] OTHER -> Stay("blocked") /\ ret' = ret
    /\ UNCHANGED <<transport, enc, buf, sendVars, ts, foldVars, yielded, errs,
                   hs, nreq, req, ndec, otherVars>>

(************************ TokenStream::try_unfold **************************)
\* Connection::is_eof
IsEof == flushed /\ buf = <<>>

\* an iterator that never raises the remembered error
EofItemSilent(last_error) == ItemNone

\* an iterator without the exemption of code 266
EofItemNoExempt(last_error) == IF last_error = NoErr THEN ItemNone ELSE ItemErr(last_error)

\* what the iterator returns when the connection is at end of response
EofItem(last_error) ==
    IF last_error = NoErr THEN ItemNone
    ELSE IF ErrCode(last_error) = ExemptCode THEN ItemNone
    ELSE ItemErr(last_error)

\* whether the unit read as the type byte names a TokenType
KnownTag(u) == u.i = 1 /\ u.t.ty \in ImplementedTypes \cup {"Unimplemented"}

\* the units read_u8 and the decoder of the token body ask Connection::read for
Need == IF buf = <<>> THEN 1 ELSE IF KnownTag(Head(buf)) /\ Head(buf).t.ty # "Unimplemented" THEN 2 ELSE 1

\* a get_error that keeps the latest error
RememberLatest(last_error, token) == ServerError(token.a)

\* get_error: the first error is kept
RememberError(last_error, token) ==
    IF last_error = NoErr THEN ServerError(token.a) ELSE last_error

\* the ReceivedToken built from a decoded token
Received(token) ==
    CASE token.ty = "ColMetaData" -> Tok("NewResultset", "", token.a, 0)
      [] token.ty = "NbcRow" -> Tok("Row", "", token.a, 0)
      [] OTHER -> token

\* the result of the closure `res` for a token whose units are buffered
DecodeItem(token) ==
    IF token.ty \in {"Done", "DoneProc", "DoneInProc"} /\ token.a \notin ValidDoneStatus
    THEN ItemErr(InvalidDoneStatus)
    ELSE ItemOk(Received(token))

(******************************* the folds *********************************)
\* flush_done: the first ERROR token is kept
FdRemember(last_error, token) == IF last_error = NoTok THEN token ELSE last_error

\* a flush_done that stops at any of the three completion tokens
IsAnyDone(token) == token.ty \in {"Done", "DoneProc", "DoneInProc"}

\* the arm Some(ReceivedToken::Done(token)) of flush_done
IsDoneToken(token) == token.ty = "Done"

\* flush_done when the iterator has ended: Err(Protocol)
FlushDoneAtEnd == Ret("flush_done", FALSE, NeverDone, NoTok)

\* a flush_done that returns the DONE token whatever came before it
FlushDoneIgnoresError(f, token) == Ret("flush_done", TRUE, NoErr, token)

\* a flush_done that returns the routing error even when an ERROR token was seen
FlushDoneRoutingFirst(f, token) ==
    IF f.routing # NoErr
    THEN Ret("flush_done", FALSE, f.routing, NoTok)
    ELSE IF f.last_error # NoTok
         THEN Ret("flush_done", FALSE, ServerError(f.last_error.a), NoTok)
         ELSE Ret("flush_done", TRUE, NoErr, token)

\* flush_done on ReceivedToken::Done: match (last_error, routing)
FlushDoneResult(f, token) ==
    IF f.last_error # NoTok
    THEN Ret("flush_done", FALSE, ServerError(f.last_error.a), NoTok)
    ELSE IF f.routing # NoErr
         THEN Ret("flush_done", FALSE, f.routing, NoTok)
         ELSE Ret("flush_done", TRUE, NoErr, token)

DeliverFlushDone(item) ==
    CASE item.k = "Err" ->
            /\ StepErr(item.e)
            /\ ret' = Ret("flush_done", FALSE, item.e, NoTok)
            /\ UNCHANGED foldVars
      [] item.k = "None" ->
            /\ StepErr(FlushDoneAtEnd.err)
            /\ ret' = FlushDoneAtEnd
            /\ UNCHANGED foldVars
      [] item.k = "Ok" /\ item.tok.ty = "Error" ->
            /\ fd' = [fd EXCEPT !.last_error = FdRemember(@, item.tok)]
            /\ Stay("next") /\ ret' = ret
            /\ UNCHANGED <<rows_affected, columns, qs>>
      [] item.k = "Ok" /\ IsDoneToken(item.tok) ->
            /\ ret' = FlushDoneResult(fd, item.tok)
            /\ IF ret'.ok THEN StepOk ELSE StepErr(ret'.err)
            /\ UNCHANGED foldVars
      [] item.k = "Ok" /\ item.tok.ty = "EnvChange" /\ item.tok.kind = "Routing" ->
            /\ fd' = [fd EXCEPT !.routing = RoutingError(item.tok.a, item.tok.b)]
            /\ Stay("next") /\ ret' = ret
            /\ UNCHANGED <<rows_affected, columns, qs>>
      [] OTHER ->
            /\ Stay("next") /\ ret' = ret
            /\ UNCHANGED foldVars

\* TokenDone::is_final
IsFinal(token) == token.a = 0

\* an ExecuteResult::new that leaves out the DONE tokens without flags
RowsPushedFinalDone(rows, token) ==
    CASE token.ty = "Done" /\ IsFinal(token) -> rows
      [] token.ty \in {"DoneProc", "DoneInProc", "Done"} -> Append(rows, token.b)
      [] OTHER -> rows

\* ExecuteResult::total
RECURSIVE Total(_)
Total(rows) == IF rows = <<>> THEN 0 ELSE Head(rows) + Total(Tail(rows))

\* ExecuteResult::new: the row counts pushed for a token
RowsPushed(rows, token) ==
    CASE token.ty = "DoneProc" /\ IsFinal(token) -> rows
      [] token.ty \in {"DoneProc", "DoneInProc", "Done"} -> Append(rows, token.b)
      [] OTHER -> rows

DeliverExecuteResult(item) ==
    /\ ret' = ret
    /\ CASE item.k = "Err" -> StepErr(item.e) /\ UNCHANGED foldVars
         [] item.k = "None" -> StepOk /\ UNCHANGED foldVars
         [] OTHER ->
              /\ rows_affected' = RowsPushed(rows_affected, item.tok)
              /\ Stay("next")
              /\ UNCHANGED <<fd, columns, qs>>

\* Client::bulk_insert: the try_fold over the first response, then ok_or_else
DeliverTryFold(item) ==
    /\ ret' = ret
    /\ CASE item.k = "Err" -> StepErr(item.e) /\ UNCHANGED foldVars
         [] item.k = "None" ->
              /\ IF columns = 0 THEN StepErr(NoColumnMetadata) ELSE StepOk
              /\ UNCHANGED foldVars
         [] OTHER ->
              /\ columns' = IF item.tok.ty = "NewResultset" THEN item.tok.a ELSE columns
              /\ Stay("next")
              /\ UNCHANGED <<fd, rows_affected, qs>>

\* QueryStream::forward_to_metadata: peek, and consume what is not metadata
DeliverForward(item) ==
    /\ ret' = ret
    /\ CASE item.k = "Err" ->
              /\ StepErr(item.e)
              /\ qs' = NewQueryStream
         [] item.k = "None" \/ item.tok.ty = "NewResultset" ->
              /\ StepOk
              /\ qs' = [qs EXCEPT !.alive = TRUE, !.peeked = item]
         [] OTHER ->
              /\ Stay("next")
              /\ qs' = [qs EXCEPT !.peeked = NoItem]
    /\ UNCHANGED <<fd, rows_affected, columns>>

\* the program panics
Panic ==
    /\ op' = "none" /\ ip' = 0 /\ sub' = "panicked"
    /\ phase' = "Panicked"
    /\ result' = result

\* QueryItem::metadata and QueryItem::Row(MssqlRow { columns, data, result_index })
MetadataItem(cols, index) ==
    [ty |-> "Metadata", kind |-> "", a |-> cols, b |-> index, data |-> 0]
RowItem(cols, data, index) ==
    [ty |-> "Row", kind |-> "", a |-> cols, b |-> index, data |-> data]

\* a QueryStream that numbers every result set 0
FirstResultIndex(index) == 0

\* result_set_index.map(|i| i + 1), then get_or_insert(0)
NextResultIndex(index) == IF index = -1 THEN 0 ELSE index + 1

\* QueryStream::next
DeliverQsNext(item) ==
    /\ ret' = ret
    /\ CASE item.k = "Err" ->
              /\ Finish(FALSE, item.e, item)
              /\ qs' = [qs EXCEPT !.peeked = NoItem]
         [] item.k = "None" ->
              /\ Finish(TRUE, NoErr, item)
              /\ qs' = [qs EXCEPT !.peeked = NoItem]
         [] item.k = "Ok" /\ item.tok.ty = "NewResultset" ->
              LET index == NextResultIndex(qs.result_set_index)
              IN  /\ qs' = [qs EXCEPT !.peeked = NoItem, !.columns = item.tok.a,
                                      !.result_set_index = index]
                  /\ Finish(TRUE, NoErr, ItemOk(MetadataItem(item.tok.a, index)))
         [] item.k = "Ok" /\ item.tok.ty = "Row" ->
              IF qs.columns = 0 \/ qs.result_set_index = -1
              THEN Panic /\ qs' = [qs EXCEPT !.peeked = NoItem]
              ELSE /\ qs' = [qs EXCEPT !.peeked = NoItem]
                   /\ Finish(TRUE, NoErr,
                             ItemOk(RowItem(qs.columns, item.tok.a, qs.result_set_index)))
         [] OTHER ->
              /\ Stay("next")
              /\ qs' = [qs EXCEPT !.peeked = NoItem]
    /\ UNCHANGED <<fd, rows_affected, columns>>

\* a peek that takes the item out of the iterator
PeekTakes(item) == NoItem
\* Peekable::peek: the item stays in the iterator for the next call of next
Peek(item) == item

\* Ok(self.columns.as_ref().map(|c| c.as_slice())), 0 standing for None
ColumnsItem(cols) == ItemOk(Tok("Columns", "", cols, 0))

\* QueryStream::columns: peek, consume what is neither metadata nor a row
DeliverColumns(item) ==
    /\ ret' = ret
    /\ CASE item.k = "Err" ->
              /\ Finish(FALSE, item.e, NoItem)
              /\ qs' = [qs EXCEPT !.peeked = Peek(item)]
         [] item.k = "None" ->
              /\ Finish(TRUE, NoErr, ColumnsItem(qs.columns))
              /\ qs' = [qs EXCEPT !.peeked = Peek(item)]
         [] item.k = "Ok" /\ item.tok.ty = "NewResultset" ->
              /\ qs' = [qs EXCEPT !.peeked = Peek(item), !.columns = item.tok.a]
              /\ Finish(TRUE, NoErr, ColumnsItem(item.tok.a))
         [] item.k = "Ok" /\ item.tok.ty = "Row" ->
              /\ qs' = [qs EXCEPT !.peeked = Peek(item)]
              /\ Finish(TRUE, NoErr, ColumnsItem(qs.columns))
         [] OTHER ->
              /\ Stay("next")
              /\ qs' = [qs EXCEPT !.peeked = NoItem]
    /\ UNCHANGED <<fd, rows_affected, columns>>

\* the loop body of the fold that called the iterator
Deliver(item) ==
    CASE Step = "flush_done" -> DeliverFlushDone(item)
      [] Step = "execute_result" -> DeliverExecuteResult(item)
      [] Step = "try_fold" -> DeliverTryFold(item)
      [] Step = "forward_to_metadata" -> DeliverForward(item)
      [] Step = "qs_columns" -> DeliverColumns(item)
      [] OTHER -> DeliverQsNext(item)

\* TokenStream::new and the locals of the fold
FoldStart ==
    /\ Step \in FoldSteps /\ sub = "start"
    /\ ts' = NoErr
    /\ errs' = <<>>
    /\ fd' = IF Step = "flush_done" THEN NewFlushDone ELSE fd
    /\ rows_affected' = IF Step = "execute_result" THEN <<>> ELSE rows_affected
    /\ columns' = IF Step = "try_fold" THEN 0 ELSE columns
    /\ qs' = IF Step = "forward_to_metadata" THEN NewQueryStream ELSE qs
    /\ yielded' = NoItem
    /\ items' = IF Step = "forward_to_metadata" THEN <<>> ELSE items
    /\ wire' = <<>>
    /\ Stay("next")
    /\ UNCHANGED <<connVars, payload, header, msg, srv, ret, discarded, hs, nreq, req,
                   ndec, bulk, shim, sent, codecVars>>

\* the caller of QueryStream::next keeps the item it was given
Collected ==
    IF op = "QueryStream::next" /\ result'.op = "QueryStream::next" /\ result'.item.k = "Ok"
    THEN Append(items, result'.item.tok)
    ELSE items

\* the fold asks for the next item: a peeked item, the end of the response,
\* or a token to be read
IterNext ==
    /\ Step \in FoldSteps /\ sub = "next"
    /\ IF Step \in {"forward_to_metadata", "qs_next", "qs_columns"} /\ qs.peeked # NoItem
       THEN Deliver(qs.peeked) /\ yielded' = yielded
       ELSE IF IsEof
            THEN Deliver(EofItem(ts)) /\ yielded' = EofItem(ts)
            ELSE /\ Stay("read")
                 /\ yielded' = NoItem
                 /\ UNCHANGED <<foldVars, ret>>
    /\ items' = Collected
    /\ UNCHANGED <<connVars, sendVars, srv, ts, errs, discarded, hs, nreq, req, ndec, bulk,
                   shim, sent, codecVars>>

\* Connection::read needs more bytes than are buffered: Connection::next
IterPull ==
    /\ Step \in FoldSteps /\ sub = "read"
    /\ Len(buf) < Need
    /\ \E ev \in TransportNext :
        /\ srv' = SrvAfter(ev)
        /\ flushed' = NextFlushed(ev)
        /\ CASE ev.k = "packet" ->
                  /\ buf' = buf \o ev.data
                  /\ Stay("read")
                  /\ UNCHANGED <<foldVars, yielded, ret>>
             [] ev.k = "eof" ->
                  /\ buf' = buf
                  /\ Deliver(ItemErr(UnexpectedEof)) /\ yielded' = ItemErr(UnexpectedEof)
             [] ev.k = "error" ->
                  /\ buf' = buf
                  /\ Deliver(ItemErr(BrokenPipe)) /\ yielded' = ItemErr(BrokenPipe)
             [] OTHER ->
                  /\ buf' = buf
                  /\ Stay("blocked")
                  /\ UNCHANGED <<foldVars, yielded, ret>>
    /\ items' = Collected
    /\ UNCHANGED <<transport, enc, context, sendVars, ts, errs, discarded, hs, nreq, req,
                   ndec, bulk, shim, sent, codecVars>>

\* the codes of the ERROR tokens decoded so far: the first and the latest
Noted(codes, code) == IF Len(codes) < 2 THEN Append(codes, code) ELSE <<codes[1], code>>

\* the type byte and the body are buffered: decode one token
IterDecode ==
    /\ Step \in FoldSteps /\ sub = "read"
    /\ Len(buf) >= Need
    /\ LET tag == Head(buf)
           token == tag.t
       IN  IF ~KnownTag(tag)
           THEN /\ buf' = Tail(buf)
                /\ Deliver(ItemErr(InvalidTokenType)) /\ yielded' = ItemErr(InvalidTokenType)
                /\ UNCHANGED <<context, ts, errs>>
           ELSE IF token.ty = "Unimplemented"
           THEN /\ buf' = Tail(buf)
                /\ Panic
                /\ UNCHANGED <<context, ts, errs, foldVars, yielded, ret>>
           ELSE IF buf[2] # Unit(token, 2)
           THEN /\ buf' = Tail(Tail(buf))
                /\ Deliver(ItemErr(DecodeError)) /\ yielded' = ItemErr(DecodeError)
                /\ UNCHANGED <<context, ts, errs>>
           ELSE /\ buf' = Tail(Tail(buf))
                /\ context' = IF DecodeItem(token).k = "Ok" THEN ContextAfter(context, token)
                              ELSE context
                /\ ts' = IF token.ty = "Error" THEN RememberError(ts, token) ELSE ts
                /\ errs' = IF token.ty = "Error" THEN Noted(errs, token.a) ELSE errs
                /\ Deliver(DecodeItem(token)) /\ yielded' = DecodeItem(token)
    /\ ndec' = IF srv.mode = "scripted" /\ Len(buf) >= 2 /\ KnownTag(Head(buf))
                  /\ Head(buf).t.ty # "Unimplemented" /\ buf[2] = Unit(Head(buf).t, 2)
               THEN ndec + 1 ELSE ndec
    /\ items' = Collected
    /\ UNCHANGED <<transport, enc, flushed, sendVars, srv, discarded, hs, nreq, req,
                   bulk, shim, sent, codecVars>>

(***************************** the caller **********************************)
\* PacketHeader::bulk_load, and the status finalize sets on the last packet
BulkHeader(id, status) == [ty |-> "BulkLoad", status |-> status, id |-> id]

\* the encoded TokenColMetaData, a TokenRow and TokenDone::default
ColumnBytes(cols) == <<129>> \o ColData(cols)
RowBytes(row, cols) == <<209>> \o [i \in 1..Len(cols) |-> row]
DoneBytes == <<253>>

\* BulkLoadRequest::new
BulkNew ==
    /\ Step = "bulk_new" /\ sub = "start"
    /\ context' = [context EXCEPT !.packet_id = NextPacketId(@)]
    /\ LET filtered == Updateable(ColumnsOf(columns))
       IN  bulk' = [alive |-> TRUE, packet_id |-> context.packet_id,
                    buf |-> ColumnBytes(filtered), rows |-> 0, columns |-> filtered]
    /\ StepOk
    /\ UNCHANGED <<transport, enc, flushed, buf, sendVars, srv, ts, foldVars, yielded,
                   errs, ret, discarded, hs, nreq, req, ndec, shim, items, sent, codecVars>>

\* a write_packets that writes all it has buffered as one packet
WritePacketsWhole(data, packet_size, id) ==
    [packets |-> <<[header |-> BulkHeader(id, "NormalMessage"), data |-> data]>>,
     rest |-> <<>>]

\* a write_packets that writes a packet as soon as a full one is buffered
RECURSIVE WritePacketsEager(_, _, _)
WritePacketsEager(data, packet_size, id) ==
    IF Len(data) >= packet_size
    THEN LET more == WritePacketsEager(SubSeq(data, packet_size + 1, Len(data)),
                                       packet_size, id)
         IN  [packets |-> <<[header |-> BulkHeader(id, "NormalMessage"),
                             data |-> SubSeq(data, 1, packet_size)]>> \o more.packets,
              rest |-> more.rest]
    ELSE [packets |-> <<>>, rest |-> data]

\* BulkLoadRequest::write_packets: full packets while more than a packet is buffered
RECURSIVE WritePackets(_, _, _)
WritePackets(data, packet_size, id) ==
    IF Len(data) > packet_size
    THEN LET more == WritePackets(SubSeq(data, packet_size + 1, Len(data)), packet_size, id)
         IN  [packets |-> <<[header |-> BulkHeader(id, "NormalMessage"),
                             data |-> SubSeq(data, 1, packet_size)]>> \o more.packets,
              rest |-> more.rest]
    ELSE [packets |-> <<>>, rest |-> data]

\* BulkLoadRequest::send: the row is encoded into the buffer and the full
\* packets are written
BulkSend ==
    /\ phase = "Ready" /\ op = "none" /\ sub = "idle"
    /\ bulk.alive /\ bulk.rows < MaxRows
    /\ LET out == WritePackets(bulk.buf \o RowBytes(bulk.rows + 1, bulk.columns),
                               context.packet_size - HEADER_BYTES, bulk.packet_id)
       IN  /\ bulk' = [bulk EXCEPT !.buf = out.rest, !.rows = @ + 1]
           /\ wire' = wire \o out.packets
           /\ flushed' = IF out.packets = <<>> THEN flushed ELSE FALSE
           /\ srv' = IF out.packets = <<>> THEN srv ELSE [srv EXCEPT !.fresh = FALSE]
           /\ sent' = IF wire = <<>> /\ out.packets # <<>> THEN Began(bulk.packet_id)
                      ELSE sent
    /\ result' = [op |-> "BulkLoadRequest::send", ok |-> TRUE, err |-> NoErr,
                  item |-> NoItem]
    /\ UNCHANGED <<phase, op, ip, sub, transport, enc, buf, context, payload, header, msg,
                   ts, foldVars, yielded, errs, ret, discarded, hs, nreq, req, ndec,
                   shim, items, codecVars>>

\* BulkLoadRequest::finalize up to flush_sink: the DONE token, the full packets,
\* the last packet with EndOfMessage; ExecuteResult::new follows
BulkFinalize ==
    /\ phase = "Ready" /\ op = "none" /\ sub = "idle"
    /\ bulk.alive
    /\ LET out == WritePackets(bulk.buf \o DoneBytes, context.packet_size - HEADER_BYTES,
                               bulk.packet_id)
           final == [header |-> BulkHeader(bulk.packet_id, "EndOfMessage"),
                     data |-> out.rest]
       IN  wire' = wire \o out.packets \o <<final>>
    /\ sent' = IF wire = <<>> THEN Began(bulk.packet_id) ELSE sent
    /\ flushed' = FALSE
    /\ srv' = [Answering(srv) EXCEPT !.fresh = FALSE]
    /\ ndec' = 0
    /\ bulk' = [bulk EXCEPT !.alive = FALSE, !.buf = <<>>]
    /\ op' = "BulkLoadRequest::finalize" /\ ip' = 2 /\ sub' = "start"
    /\ result' = NoResult /\ yielded' = NoItem /\ ret' = NoRet
    /\ UNCHANGED <<phase, transport, enc, buf, context, payload, header, msg, ts, foldVars,
                   errs, discarded, hs, nreq, req, shim, items, codecVars>>

\* the caller drops the BulkLoadRequest without finalizing it
BulkDrop ==
    /\ phase = "Ready" /\ op = "none" /\ sub = "idle"
    /\ bulk.alive
    /\ bulk' = NoBulk
    /\ wire' = <<>>
    /\ sent' = IF wire = <<>> THEN [sent EXCEPT !.skipped = @ + 1] ELSE sent
    /\ UNCHANGED <<ctlVars, connVars, payload, header, msg, srv, ts, foldVars, yielded,
                   errs, ret, discarded, hs, nreq, req, ndec, shim, items, codecVars>>

\* the values returned by the previous call and its locals are gone
CallerState ==
    /\ result' = NoResult /\ yielded' = NoItem /\ ret' = NoRet
    /\ ts' = NoErr /\ errs' = <<>>
    /\ fd' = NewFlushDone /\ rows_affected' = <<>> /\ columns' = 0
    /\ enc' = "none" /\ hs' = <<>> /\ discarded' = NoneDiscarded

\* the caller enters an entry point of a ready client
BeginRequest ==
    /\ phase = "Ready" /\ op = "none" /\ sub = "idle"
    /\ ~qs.alive /\ ~bulk.alive
    /\ ~srv.closed
    /\ nreq < MaxRequests
    /\ \E e \in EntryPoints : op' = e
    /\ ip' = 1 /\ sub' = "start"
    /\ nreq' = nreq + 1
    /\ CallerState
    /\ UNCHANGED <<phase, transport, flushed, buf, context, sendVars, srv, qs, req, ndec,
                   otherVars>>

\* the caller polls the QueryStream it holds
QsNextCall ==
    /\ phase = "Ready" /\ op = "none" /\ sub = "idle"
    /\ qs.alive
    /\ op' = "QueryStream::next" /\ ip' = 1 /\ sub' = "next"
    /\ result' = NoResult /\ yielded' = NoItem /\ ret' = NoRet
    /\ UNCHANGED <<phase, connVars, sendVars, srv, ts, foldVars, errs, discarded, hs, nreq, req, ndec, otherVars>>

\* the caller drops the QueryStream, read to the end or not
QsDrop ==
    /\ phase = "Ready" /\ op = "none" /\ sub = "idle"
    /\ qs.alive
    /\ qs' = NewQueryStream
    /\ ts' = NoErr /\ errs' = <<>> /\ yielded' = NoItem
    /\ items' = <<>>
    /\ UNCHANGED <<ctlVars, connVars, sendVars, srv, fd, rows_affected, columns,
                   ret, discarded, hs, nreq, req, ndec, bulk, shim, sent, codecVars>>

Next ==
    \/ SendBegin \/ SendLoop \/ SendFlush
    \/ CollectPrelogin \/ TlsHandshake
    \/ FlushStreamStart \/ FlushStreamLoop
    \/ FoldStart \/ IterNext \/ IterPull \/ IterDecode
    \/ BulkNew \/ BulkDrop
    \/ BeginRequest \/ QsNextCall \/ QsDrop

Spec == Init /\ [][Next]_vars

(********************** a server with a scripted response ******************)
Routing(host, port) == Tok("EnvChange", "Routing", host, port)
BeginTransaction(desc) == Tok("EnvChange", "BeginTransaction", desc, 0)
EndTransaction(kind) == Tok("EnvChange", kind, 0, 0)
PacketSizeChange(size) == Tok("EnvChange", "PacketSize", size, 0)
ColMetaData(cols) == Tok("ColMetaData", "", cols, 0)
Row(ty, data) == Tok(ty, "", data, 0)
Done(ty, status, rows) == Tok(ty, "", status, rows)
ErrorToken(code) == Tok("Error", "", code, 0)

\* responses with a routing ENVCHANGE, alone and with an ERROR token
RoutingScripts ==
    {<<Routing(1, 2), Done("Done", 0, 0)>>,
     <<Routing(2, 1), Done("Done", 0, 0)>>,
     <<Routing(1, 2), Routing(2, 1), Done("Done", 0, 0)>>,
     <<ErrorToken(DeadlockCode), Routing(1, 2), Done("Done", 0, 0)>>,
     <<Routing(1, 2), ErrorToken(DeadlockCode), Done("Done", 0, 0)>>}

\* responses of a query: result sets, rows, tokens between the rows, errors
RowScripts ==
    {<<ColMetaData(1), Row("Row", 1), BeginTransaction(5), Row("NbcRow", 2),
       ColMetaData(2), Row("Row", 3), Done("Done", DoneCount, 3)>>,
     <<ColMetaData(2), ColMetaData(1), Row("Row", 1), Done("Done", 0, 0)>>,
     <<Row("Row", 1), ColMetaData(1), Row("Row", 2), Done("Done", 0, 0)>>,
     <<ColMetaData(1), Row("Row", 1), ErrorToken(DeadlockCode), Row("Row", 2),
       Done("Done", 0, 0)>>,
     <<ColMetaData(1), ErrorToken(ExemptCode), Row("Row", 1), Done("Done", 0, 0)>>}

\* completion tokens with the counts 3, 5 and 0, the last without flags
CountScriptsExample ==
    <<Done("DoneInProc", DoneCount, 3), Done("DoneInProc", DoneCount, 5), Done("Done", 0, 0)>>

\* responses of a statement that returns no rows: completion tokens only
CountScripts ==
    {CountScriptsExample,
     <<Done("DoneInProc", DoneCount, 3), Done("DoneProc", DoneCount, 5),
       Done("DoneProc", 0, 0)>>,
     <<Done("DoneInProc", DoneCount, 3), Done("DoneProc", 0, 2)>>,
     <<Done("Done", DoneMore, 3), Done("Done", 0, 2)>>}

TransactionTokens ==
    {BeginTransaction(5), BeginTransaction(6), EndTransaction("CommitTransaction"),
     EndTransaction("RollbackTransaction"), EndTransaction("DefectTransaction")}

\* responses that begin and end transactions
TransactionScripts ==
    {<<t, Done("Done", 0, 0)>> : t \in TransactionTokens}
    \cup {<<BeginTransaction(5), t, Done("Done", 0, 0)>> : t \in TransactionTokens}

\* responses that announce a packet size
PacketSizeScripts ==
    {<<PacketSizeChange(HEADER_BYTES + k), Done("Done", 0, 0)>> : k \in 0..2}

Scripts ==
    RoutingScripts \cup RowScripts \cup CountScripts \cup TransactionScripts
    \cup PacketSizeScripts

\* the response to the SELECT of bulk_insert: the columns of the table
ColumnsScript == <<ColMetaData(1), Done("Done", 0, 0)>>

\* the responses a server has scripted for the requests to come: a script for
\* the first request; the columns and then a routing script, which bulk_insert
\* reads with flush_done; a packet size and then the columns for a bulk_insert
Queues ==
    {<<script>> : script \in Scripts}
    \cup {<<ColumnsScript, script>> : script \in RoutingScripts}
    \cup {<<script, ColumnsScript>> : script \in PacketSizeScripts}

\* a server that answers the requests with the scripts of the queue, in order,
\* and the later ones with the end of the batch
ScriptedServer(queue) ==
    [resp |-> 0, left |-> MaxPackets, tok |-> NoTok, closed |-> FALSE,
     mode |-> "scripted", script |-> <<>>, full |-> <<>>, queue |-> queue, fresh |-> TRUE]

\* a connection that connect has returned, between two requests
ReadyConnection ==
    /\ phase = "Ready"
    /\ op = "none" /\ ip = 0 /\ sub = "idle"
    /\ transport = "Raw"
    /\ enc = "none"
    /\ flushed = TRUE
    /\ buf = <<>>
    /\ payload = <<>> /\ header = NoHeader /\ msg = <<>> /\ wire = <<>>
    /\ ts = NoErr
    /\ fd = NewFlushDone
    /\ rows_affected = <<>>
    /\ columns = 0
    /\ qs = NewQueryStream
    /\ yielded = NoItem
    /\ errs = <<>>
    /\ ret = NoRet
    /\ discarded = NoneDiscarded
    /\ result = NoResult
    /\ hs = <<>>
    /\ nreq = 0
    /\ req = NoReq
    /\ ndec = 0
    /\ bulk = NoBulk
    /\ shim = NoShim
    /\ items = <<>>

\* the packet ids a connection has reached: after connect, and before the wrap
PacketIds == {2, 255}

InitScript ==
    /\ ReadyConnection
    /\ NoCodec
    /\ \E id \in PacketIds :
          /\ context = [NewContext EXCEPT !.packet_id = id]
          /\ sent = Began(id - 1)
    /\ \E queue \in Queues : srv = ScriptedServer(queue)

NextScript ==
    \/ SendBegin \/ SendLoop \/ SendFlush
    \/ FlushStreamStart \/ FlushStreamLoop
    \/ FoldStart \/ IterNext \/ IterPull \/ IterDecode
    \/ BulkNew \/ BulkSend \/ BulkFinalize \/ BulkDrop
    \/ BeginRequest \/ QsNextCall \/ QsDrop

SpecScript == InitScript /\ [][NextScript]_vars

(********************* QueryStream::into_results ***************************)
\* responses of one or more SELECT statements: result sets with and without
\* rows, a response without a result set, and one with a server error
ResultScripts ==
    {<<ColMetaData(1), Row("Row", 1), Row("NbcRow", 2), ColMetaData(2), Row("Row", 3),
       Done("Done", DoneCount, 3)>>,
     <<ColMetaData(2), ColMetaData(1), Row("Row", 1), Done("Done", 0, 0)>>,
     <<ColMetaData(1), Row("Row", 1), ColMetaData(2), Done("Done", 0, 0)>>,
     <<ColMetaData(1), ColMetaData(2), ColMetaData(1), Row("Row", 1), Done("Done", 0, 0)>>,
     <<ColMetaData(1), Done("Done", 0, 0)>>,
     <<Done("Done", DoneCount, 1)>>,
     <<ColMetaData(1), Row("Row", 1), ErrorToken(DeadlockCode), Done("Done", 0, 0)>>}

\* the locals of into_results: results, and result, which is None or Some(rows)
NoneRows == [some |-> FALSE, rows |-> <<>>]
SomeRows(rows) == [some |-> TRUE, rows |-> rows]
IntoResults(results, rows) ==
    [fn |-> "QueryStream::into_results", results |-> results, result |-> rows]
Returned(results) == [fn |-> "returned", results |-> results, result |-> NoneRows]

InitResults ==
    /\ ReadyConnection
    /\ NoCodec
    /\ context = [NewContext EXCEPT !.packet_id = 2]
    /\ sent = Began(1)
    /\ \E script \in ResultScripts : srv = ScriptedServer(<<script>>)

\* the caller runs a query that returns a QueryStream
QueryCall ==
    /\ BeginRequest
    /\ op' \in RpcQueryOps \cup {"Client::simple_query"}

\* self.next()
PollNext ==
    /\ op' = "QueryStream::next" /\ ip' = 1 /\ sub' = "next"
    /\ result' = NoResult /\ yielded' = NoItem /\ ret' = NoRet

\* into_results is called on the QueryStream: the locals, and the first next()
IntoResultsCall ==
    /\ phase = "Ready" /\ op = "none" /\ sub = "idle"
    /\ qs.alive
    /\ call.fn # "QueryStream::into_results"
    /\ call' = IntoResults(<<>>, NoneRows)
    /\ PollNext
    /\ UNCHANGED <<phase, connVars, sendVars, srv, ts, foldVars, errs, discarded, hs,
                   nreq, req, ndec, bulk, shim, items, sent, framed_read, framed_write>>

\* match (item, &mut result)
Matched(item, results, rows) ==
    CASE item.ty = "Row" /\ ~rows.some -> IntoResults(results, SomeRows(<<item>>))
      [] item.ty = "Row" -> IntoResults(results, SomeRows(Append(rows.rows, item)))
      [] item.ty = "Metadata" /\ ~rows.some -> IntoResults(results, SomeRows(<<>>))
      [] OTHER -> IntoResults(Append(results, rows.rows), NoneRows)

\* into_results returns, and the QueryStream it has consumed is dropped
IntoResultsReturn(ok, e) ==
    /\ op' = "none" /\ ip' = 0 /\ sub' = "idle"
    /\ result' = [op |-> "QueryStream::into_results", ok |-> ok, err |-> e,
                  item |-> NoItem]
    /\ qs' = NewQueryStream
    /\ ts' = NoErr /\ errs' = <<>> /\ yielded' = NoItem

\* next() has returned: the loop body and the next call of next(), or the
\* end of the loop
IntoResultsItem ==
    /\ call.fn = "QueryStream::into_results"
    /\ phase = "Ready" /\ op = "none" /\ sub = "idle"
    /\ result.op = "QueryStream::next"
    /\ CASE result.item.k = "Ok" ->
              /\ call' = Matched(result.item.tok, call.results, call.result)
              /\ PollNext
              /\ UNCHANGED <<qs, ts, errs>>
         [] result.item.k = "None" ->
              /\ call' = Returned(IF call.result.some
                                  THEN Append(call.results, call.result.rows)
                                  ELSE call.results)
              /\ IntoResultsReturn(TRUE, NoErr)
              /\ ret' = ret
         [] OTHER ->
              /\ call' = Returned(<<>>)
              /\ IntoResultsReturn(FALSE, result.err)
              /\ ret' = ret
    /\ UNCHANGED <<phase, connVars, sendVars, srv, fd, rows_affected, columns, discarded,
                   hs, nreq, req, ndec, bulk, shim, items, sent, framed_read,
                   framed_write>>

NextResults ==
    \/ SendBegin \/ SendLoop \/ SendFlush
    \/ FlushStreamStart
    \/ FoldStart \/ IterNext \/ IterPull \/ IterDecode
    \/ QueryCall \/ IntoResultsCall \/ IntoResultsItem

SpecResults == InitResults /\ [][NextResults]_vars

(************************* QueryStream::columns ****************************)
\* responses with tokens that are not surfaced between the result sets
ColumnsScripts ==
    ResultScripts
    \cup {<<Done("DoneInProc", DoneMore, 0), ColMetaData(1), Row("Row", 1),
            Done("Done", DoneMore, 1), ColMetaData(2), Row("NbcRow", 2), Row("Row", 3),
            Done("Done", 0, 2)>>}

InitColumns ==
    /\ ReadyConnection
    /\ NoCodec
    /\ context = [NewContext EXCEPT !.packet_id = 2]
    /\ sent = Began(1)
    /\ \E script \in ColumnsScripts : srv = ScriptedServer(<<script>>)

\* the caller asks the QueryStream it holds for the columns
QsColumnsCall ==
    /\ phase = "Ready" /\ op = "none" /\ sub = "idle"
    /\ qs.alive
    /\ op' = "QueryStream::columns" /\ ip' = 1 /\ sub' = "next"
    /\ result' = NoResult /\ yielded' = NoItem /\ ret' = NoRet
    /\ UNCHANGED <<phase, connVars, sendVars, srv, ts, foldVars, errs, discarded, hs, nreq,
                   req, ndec, otherVars>>

NextColumns ==
    \/ SendBegin \/ SendLoop \/ SendFlush
    \/ FlushStreamStart
    \/ FoldStart \/ IterNext \/ IterPull \/ IterDecode
    \/ QueryCall \/ QsNextCall \/ QsColumnsCall

SpecColumns == InitColumns /\ [][NextColumns]_vars

(********************* the TLS handshake through the shim ******************)
\* the TLS features of the build: exactly one backend is compiled in
Backends == {"native-tls", "rustls"}

\* TlsPreloginWrapper::new, under a TLS session that has exchanged nothing yet
NewWrapper(backend) ==
    [backend |-> backend, pending_handshake |-> TRUE, wr_buf |-> <<>>,
     header_read |-> FALSE, read_remaining |-> 0, stage |-> "hello", written |-> 0,
     got |-> 0]

Zeros(n) == [i \in 1..n |-> 0]

\* what reaches the TCP stream: a TDS packet in the clear, or bytes without a
\* TDS header of their own
Framed(h, data, content) == [header |-> h, data |-> data, content |-> content]
Unframed(data, content) == [header |-> NoHeader, data |-> data, content |-> content]

\* the header TlsPreloginWrapper::flush puts before the buffered bytes
ShimHeader == [ty |-> "PreLogin", status |-> "EndOfMessage", id |-> 0]

\* the types of the packets a server answers a handshake flight with
FlightTypes == {"PreLogin", "TabularResult"}

\* a flight of the server: MaxFlight bytes in one packet or two
ServerFlights ==
    {<<[header |-> [ty |-> t, status |-> "EndOfMessage", id |-> 0],
        data |-> Zeros(MaxFlight)]>> : t \in FlightTypes}
    \cup {<<[header |-> [ty |-> "PreLogin", status |-> "EndOfMessage", id |-> 0],
             data |-> Zeros(k)],
            [header |-> [ty |-> "PreLogin", status |-> "EndOfMessage", id |-> 0],
             data |-> Zeros(MaxFlight - k)]>> : k \in 1..(MaxFlight - 1)}

\* the state in which Connection::tls_handshake is entered: PRELOGIN is done
InitTls ==
    /\ phase = "PreLogin"
    /\ op = "connect" /\ ip = 3 /\ sub = "start"
    /\ transport = "Raw"
    /\ enc \in EncryptionLevels
    /\ flushed = TRUE
    /\ buf = <<>>
    /\ context = [NewContext EXCEPT !.packet_id = 1]
    /\ payload = <<>> /\ header = NoHeader /\ msg = <<>> /\ wire = <<>>
    /\ srv = [ReadyServer EXCEPT !.mode = "tls"]
    /\ ts = NoErr
    /\ fd = NewFlushDone
    /\ rows_affected = <<>>
    /\ columns = 0
    /\ qs = NewQueryStream
    /\ yielded = NoItem
    /\ errs = <<>>
    /\ ret = NoRet
    /\ discarded = NoneDiscarded
    /\ result = NoResult
    /\ hs = <<"send_prelogin", "prelogin_response">>
    /\ nreq = 0
    /\ req = NoReq
    /\ ndec = 0
    /\ bulk = NoBulk
    /\ \E backend \in Backends : shim = [NoShim EXCEPT !.backend = backend]
    /\ NoCodec
    /\ items = <<>>
    /\ sent = Began(0)

\* what the steps of the handshake leave alone
tlsIdle == <<payload, ts, foldVars, yielded, errs, ret, discarded, hs, nreq, req, ndec,
             bulk, items, sent, codecVars>>

\* Connection::tls_handshake up to the return of create_tls_stream's
\* constructor: native-tls enters TlsConnector::connect, which drives the
\* handshake; rustls returns StreamOwned::new, which does no IO
TlsCreate ==
    /\ Step = "tls_handshake" /\ sub = "start"
    /\ IF ~HandshakeNeeded(TRUE, enc)
       THEN StepOk /\ shim' = shim
       ELSE \E trusted \in BOOLEAN :
               IF trusted
               THEN /\ shim' = NewWrapper(shim.backend)
                    /\ Stay(IF shim.backend = "native-tls" THEN "connect" ELSE "created")
               ELSE StepErr(TlsError) /\ shim' = shim
    /\ UNCHANGED <<transport, enc, flushed, buf, context, header, msg, wire, srv, tlsIdle>>

\* the TLS session is inside the handshake and something is driving it:
\* TlsConnector::connect, or the first write on a rustls stream
Driving ==
    \/ Step = "tls_handshake" /\ sub = "connect"
    \/ Step = "send_login" /\ sub = "handshake"

\* the session hands bytes of its flight to TlsPreloginWrapper::write
TlsWrite ==
    /\ Driving
    /\ shim.stage \in {"hello", "finish"} /\ shim.written < MaxFlight
    /\ \E n \in 1..(MaxFlight - shim.written) :
          IF shim.pending_handshake
          THEN /\ shim' = [shim EXCEPT !.wr_buf = @ \o Zeros(n), !.written = @ + n]
               /\ wire' = wire
          ELSE /\ shim' = [shim EXCEPT !.written = @ + n]
               /\ wire' = Append(wire, Unframed(Zeros(n), "handshake"))
    /\ Stay(sub)
    /\ UNCHANGED <<transport, enc, flushed, buf, context, header, msg, srv, tlsIdle>>

\* the answer of the server to a flight: a flight of its own, or the end of
\* the connection; bytes that came without a TDS header end the connection
ServerAnswers(framed) ==
    IF framed
    THEN {[srv EXCEPT !.queue = f] : f \in ServerFlights} \cup {[srv EXCEPT !.closed = TRUE]}
    ELSE {[srv EXCEPT !.closed = TRUE]}

\* the session flushes its flight: TlsPreloginWrapper::flush
TlsFlush ==
    /\ Driving
    /\ shim.stage \in {"hello", "finish"} /\ shim.written = MaxFlight
    /\ LET next == IF shim.stage = "hello" THEN "server_hello" ELSE "server_finish"
       IN  IF shim.pending_handshake /\ shim.wr_buf # <<>>
           THEN /\ wire' = Append(wire, Framed(ShimHeader, shim.wr_buf, "handshake"))
                /\ shim' = [shim EXCEPT !.wr_buf = <<>>, !.written = 0, !.stage = next]
           ELSE /\ wire' = wire
                /\ shim' = [shim EXCEPT !.written = 0, !.stage = next]
    /\ srv' \in ServerAnswers(shim.pending_handshake)
    /\ Stay(sub)
    /\ UNCHANGED <<transport, enc, flushed, buf, context, header, msg, tlsIdle>>

\* the session after n more bytes of the server's flight
SessionGot(w, n, verified) ==
    IF w.got + n < MaxFlight THEN [w EXCEPT !.got = @ + n]
    ELSE [w EXCEPT !.got = 0,
                   !.stage = IF ~verified THEN "failed"
                             ELSE IF w.stage = "server_hello" THEN "finish"
                             ELSE "established"]

\* the session reads the flight of the server: TlsPreloginWrapper::read
TlsRead ==
    /\ Driving
    /\ shim.stage \in {"server_hello", "server_finish"}
    /\ IF srv.closed \/ srv.queue = <<>> \/ ~shim.pending_handshake
       THEN /\ shim' = [shim EXCEPT !.stage = "failed"]
            /\ srv' = srv
            /\ Stay(sub)
       ELSE LET packet == Head(srv.queue)
                remaining == IF shim.header_read THEN shim.read_remaining
                             ELSE Len(packet.data)
            IN  IF ~shim.header_read /\ packet.header.ty # "PreLogin"
                THEN Panic /\ shim' = shim /\ srv' = srv
                ELSE \E n \in 1..remaining, verified \in BOOLEAN :
                        /\ shim' = [SessionGot(shim, n, verified) EXCEPT
                                        !.header_read = remaining - n > 0,
                                        !.read_remaining = remaining - n]
                        /\ srv' = IF remaining = n
                                  THEN [srv EXCEPT !.queue = Tail(@)]
                                  ELSE [srv EXCEPT !.queue =
                                           <<[packet EXCEPT !.data = SubSeq(@, n + 1, Len(@))]>>
                                           \o Tail(@)]
                        /\ Stay(sub)
    /\ UNCHANGED <<transport, enc, flushed, buf, context, header, msg, wire, tlsIdle>>

\* TlsConnector::connect returns Ok, the handshake being complete
TlsConnected ==
    /\ Step = "tls_handshake" /\ sub = "connect"
    /\ shim.stage = "established"
    /\ Stay("created")
    /\ UNCHANGED <<transport, enc, flushed, buf, context, header, msg, wire, srv, shim,
                   tlsIdle>>

\* the handshake failed: connect, or the send that drove it, returns the error
TlsFailed ==
    /\ Driving
    /\ shim.stage = "failed"
    /\ StepErr(TlsError)
    /\ UNCHANGED <<transport, enc, flushed, buf, context, header, msg, wire, srv, shim,
                   tlsIdle>>

\* stream.get_mut().handshake_complete(), and the Connection over the TLS stream
HandshakeComplete ==
    /\ Step = "tls_handshake" /\ sub = "created"
    /\ shim' = [shim EXCEPT !.pending_handshake = FALSE]
    /\ transport' = "Tls"
    /\ flushed' = FALSE
    /\ buf' = <<>>
    /\ StepOk
    /\ UNCHANGED <<enc, context, header, msg, wire, srv, tlsIdle>>

\* Connection::login: the LOGIN message is encoded and handed to the transport;
\* a TLS stream that has not done its handshake does it before the first write
LoginBegin ==
    /\ Step = "send_login" /\ sub = "start"
    /\ \E m \in RequestMessages : msg' = m
    /\ header' = HeaderFor(Step, context.packet_id)
    /\ context' = [context EXCEPT !.packet_id = NextPacketId(@)]
    /\ flushed' = FALSE
    /\ Goto(IF transport = "Tls" /\ shim.stage # "established" THEN "handshake"
            ELSE "write", "LoggingIn")
    /\ UNCHANGED <<transport, enc, buf, wire, srv, shim, tlsIdle>>

\* the LOGIN message goes out, as TLS records or in the clear, and
\* post_login_encryption follows
LoginWrite ==
    /\ Step = "send_login"
    /\ sub = "write" \/ (sub = "handshake" /\ shim.stage = "established")
    /\ wire' = Append(wire, IF transport = "Tls" THEN Unframed(msg, "application")
                            ELSE Framed(header, msg, "login"))
    /\ transport' = PostLoginEncryption(transport, enc)
    /\ header' = NoHeader /\ msg' = <<>>
    /\ Stay("sent")
    /\ UNCHANGED <<enc, flushed, buf, context, srv, shim, tlsIdle>>

NextTls ==
    \/ TlsCreate \/ TlsWrite \/ TlsFlush \/ TlsRead \/ TlsConnected \/ TlsFailed
    \/ HandshakeComplete \/ LoginBegin \/ LoginWrite

SpecTls == InitTls /\ [][NextTls]_vars

(********************** Client::bulk_insert on its own *********************)
\* the responses to `SELECT TOP 0 * FROM <table>`: the columns of the table,
\* or no COLMETADATA at all
TableScripts ==
    {<<ColMetaData(cols), Done("Done", 0, 0)>> : cols \in 1..4}
        \cup {<<Done("Done", 0, 0)>>}

\* the responses to INSERT BULK: accepted, or refused with a server error
InsertBulkScripts ==
    {<<Done("Done", 0, 0)>>, <<ErrorToken(DeadlockCode), Done("Done", 0, 0)>>}

\* the packet sizes in force during a bulk load
BulkPacketSizes == {HEADER_BYTES + 1, HEADER_BYTES + 2, DefaultPacketSize}

\* a ready connection whose caller is about to call bulk_insert on a table
InitBulk ==
    /\ ReadyConnection
    /\ framed_read = NoFramedRead /\ framed_write = NoFramedWrite
    /\ sent = NoneSent
    /\ \E p \in BulkPacketSizes : context = [NewContext EXCEPT !.packet_size = p]
    /\ \E first \in TableScripts, second \in InsertBulkScripts :
          /\ srv = ScriptedServer(<<first, second>>)
          /\ call = [fn |-> "Client::bulk_insert", first |-> first, second |-> second]

\* the caller enters Client::bulk_insert
BulkInsertCall ==
    /\ phase = "Ready" /\ op = "none" /\ sub = "idle"
    /\ nreq = 0
    /\ op' = "Client::bulk_insert" /\ ip' = 1 /\ sub' = "start"
    /\ nreq' = 1
    /\ UNCHANGED <<phase, result, connVars, sendVars, srv, ts, foldVars, yielded, errs,
                   ret, discarded, hs, req, ndec, otherVars>>

NextBulk ==
    \/ BulkInsertCall
    \/ FlushStreamStart
    \/ SendBegin \/ SendLoop \/ SendFlush
    \/ FoldStart \/ IterNext \/ IterPull \/ IterDecode
    \/ BulkNew \/ BulkSend \/ BulkFinalize

SpecBulk == InitBulk /\ [][NextBulk]_vars

(**************** Client::rpc_params and rpc_perform_query *****************)
\* the characters of a SQL text: a line feed, a carriage return, any other
Chars == {"\n", "\r", "s"}
Texts == UNION {[1..n -> Chars] : n \in 0..MaxText}

\* ColumnData: the variant, Some or None, and what type_name reads of the
\* value: the length in bytes of a string or binary value, the precision and
\* the scale of a numeric; text and str hold the content of the two leading
\* parameters
Value(variant, some, len, precision, scale) ==
    [variant |-> variant, some |-> some, len |-> len, precision |-> precision,
     scale |-> scale, text |-> <<>>, str |-> ""]

MAX_NVARCHAR_SIZE == 1073741824

\* the values bound to the placeholders
ParamValues ==
    {Value("I32", TRUE, 0, 0, 0), Value("Bit", FALSE, 0, 0, 0),
     Value("String", FALSE, 0, 0, 0), Value("String", TRUE, 4001, 0, 0),
     Value("Binary", FALSE, 0, 0, 0), Value("Binary", TRUE, 8000, 0, 0),
     Value("Numeric", TRUE, 0, 5, 2), Value("String", TRUE, MAX_NVARCHAR_SIZE + 1, 0, 0)}
ParamLists == UNION {[1..n -> ParamValues] : n \in 0..MaxParams}

\* ColumnData::type_name
TypeName(v) ==
    CASE v.variant = "U8" -> "tinyint"
      [] v.variant = "I16" -> "smallint"
      [] v.variant = "I32" -> "int"
      [] v.variant = "I64" -> "bigint"
      [] v.variant = "F32" -> "float(24)"
      [] v.variant = "F64" -> "float(53)"
      [] v.variant = "Bit" -> "bit"
      [] v.variant = "String" ->
            IF ~v.some \/ v.len <= 4000 THEN "nvarchar(4000)"
            ELSE IF v.len <= MAX_NVARCHAR_SIZE THEN "nvarchar(max)"
            ELSE "ntext(max)"
      [] v.variant = "Guid" -> "uniqueidentifier"
      [] v.variant = "Binary" ->
            IF v.some /\ v.len <= 8000 THEN "varbinary(8000)" ELSE "varbinary(max)"
      [] v.variant = "Numeric" ->
            IF v.some
            THEN "numeric(" \o ToString(v.precision) \o "," \o ToString(v.scale) \o ")"
            ELSE "numeric"
      [] v.variant = "Xml" -> "xml"
      [] v.variant = "DateTime" -> "datetime"
      [] v.variant = "SmallDateTime" -> "smalldatetime"
      [] v.variant = "Time" -> "time"
      [] v.variant = "Date" -> "date"
      [] v.variant = "DateTime2" -> "datetime2"
      [] v.variant = "DateTimeOffset" -> "datetimeoffset"
      [] OTHER -> "sql_variant"

\* str::replace: the matches of `from`, found from the left without overlap,
\* are replaced by `to`
RECURSIVE Replace(_, _, _)
Replace(text, from, to) ==
    IF Len(text) < Len(from) THEN text
    ELSE IF SubSeq(text, 1, Len(from)) = from
         THEN to \o Replace(SubSeq(text, Len(from) + 1, Len(text)), from, to)
         ELSE <<Head(text)>> \o Replace(Tail(text), from, to)

\* query.replace("\n", "\n\r").replace("\r\r", "\r")
QueryText(query) == Replace(Replace(query, <<"\n">>, <<"\n", "\r">>), <<"\r", "\r">>, <<"\r">>)

\* RpcParam with empty flags
RpcParam(name, value) == [name |-> name, flags |-> {}, value |-> value]

\* ColumnData::String(Some(..)) of a SQL text, and of a declaration string
TextValue(text) == [Value("String", TRUE, Len(text), 0, 0) EXCEPT !.text = text]
StrValue(str) == [Value("String", TRUE, 0, 0, 0) EXCEPT !.str = str]

\* the request TokenRpcRequest::new builds
RpcRequest(proc_id, params, desc) ==
    [proc_id |-> proc_id, params |-> params, transaction_desc |-> desc]
NoRpcRequest == RpcRequest("none", <<>>, 0)

\* a ready connection whose caller binds values to a SQL text
InitRpc ==
    /\ ReadyConnection
    /\ framed_read = NoFramedRead /\ framed_write = NoFramedWrite
    /\ context = NewContext
    /\ sent = NoneSent
    /\ srv = ReadyServer
    /\ \E query \in Texts, params \in ParamLists :
          call = [fn |-> "Client::rpc_perform_query", query |-> query, params |-> params,
                  proc_id |-> "ExecuteSQL", rpc_params |-> <<>>, param_str |-> "",
                  i |-> 0, request |-> NoRpcRequest]

\* the caller runs a parameterized query
RpcCall ==
    /\ phase = "Ready" /\ op = "none" /\ sub = "idle"
    /\ nreq = 0
    /\ op' = "Client::rpc_perform_query" /\ ip' = 1 /\ sub' = "start"
    /\ nreq' = 1
    /\ UNCHANGED <<phase, result, connVars, sendVars, srv, ts, foldVars, yielded, errs,
                   ret, discarded, hs, req, ndec, otherVars>>

\* Client::rpc_params: the statement and the placeholder of the declarations
RpcParams ==
    /\ Step = "rpc_params" /\ sub = "start"
    /\ call' = [call EXCEPT !.rpc_params =
                    <<RpcParam("stmt", TextValue(QueryText(call.query))),
                      RpcParam("params", Value("I32", TRUE, 0, 0, 0))>>]
    /\ StepOk
    /\ UNCHANGED <<connVars, sendVars, srv, ts, foldVars, yielded, errs, ret, discarded,
                   hs, nreq, req, ndec, bulk, shim, items, sent, framed_read,
                   framed_write>>

\* the value of the first parameter named "params" becomes the string
SetParams(params, str) ==
    LET found == {k \in 1..Len(params) : params[k].name = "params"}
    IN  IF found = {} THEN params
        ELSE LET first == CHOOSE k \in found : \A j \in found : k <= j
             IN  [params EXCEPT ![first].value = StrValue(str)]

\* rpc_perform_query, an iteration of the loop over the bound values
RpcPerformPush ==
    /\ Step = "rpc_perform" /\ sub = "start"
    /\ call.i < Len(call.params)
    /\ LET i == call.i
           param == call.params[i + 1]
           sep == IF i > 0 THEN "," ELSE ""
       IN  call' = [call EXCEPT
                !.param_str = @ \o sep \o "@P" \o ToString(i + 1) \o " " \o TypeName(param),
                !.rpc_params = Append(@, RpcParam("@P" \o ToString(i + 1), param)),
                !.i = i + 1]
    /\ Stay("start")
    /\ UNCHANGED <<connVars, sendVars, srv, ts, foldVars, yielded, errs, ret, discarded,
                   hs, nreq, req, ndec, bulk, shim, items, sent, framed_read,
                   framed_write>>

\* rpc_perform_query after the loop: the declarations are stored and the
\* request is built; Connection::send follows
RpcPerformRequest ==
    /\ Step = "rpc_perform" /\ sub = "start"
    /\ call.i = Len(call.params)
    /\ call' = [call EXCEPT
            !.rpc_params = SetParams(@, call.param_str),
            !.request = RpcRequest(call.proc_id, SetParams(call.rpc_params, call.param_str),
                                   context.transaction_desc)]
    /\ StepOk
    /\ UNCHANGED <<connVars, sendVars, srv, ts, foldVars, yielded, errs, ret, discarded,
                   hs, nreq, req, ndec, bulk, shim, items, sent, framed_read,
                   framed_write>>

NextRpc ==
    \/ RpcCall
    \/ RpcParams \/ RpcPerformPush \/ RpcPerformRequest
    \/ SendBegin \/ SendLoop \/ SendFlush

SpecRpc == InitRpc /\ [][NextRpc]_vars

(************** ColumnData::encode and ColumnData::decode ******************)
\* an unsigned integer as w little-endian bytes, and back
RECURSIVE LE(_, _)
LE(n, w) == IF w = 0 THEN <<>> ELSE <<n % 256>> \o LE(n \div 256, w - 1)

RECURSIVE FromLE(_)
FromLE(b) == IF b = <<>> THEN 0 ELSE Head(b) + 256 * FromLE(Tail(b))

\* a signed integer in two's complement, and back
SignedLE(v, w) ==
    IF v >= 0 THEN LE(v, w) ELSE [i \in 1..w |-> 255 - LE(-v - 1, w)[i]]

FromSignedLE(b) ==
    IF b[Len(b)] >= 128 THEN -FromLE([i \in 1..Len(b) |-> 255 - b[i]]) - 1
    ELSE FromLE(b)

\* TypeInfo: FixedLen(ty), VarLenSized(VarLenContext), VarLenSizedPrecision
\* and Xml
FixedLen(ty) ==
    [kind |-> "FixedLen", ty |-> ty, len |-> 0, precision |-> 0, scale |-> 0,
     collation |-> "none"]
VarLenSized(ty, len, collation) ==
    [kind |-> "VarLenSized", ty |-> ty, len |-> len, precision |-> 0, scale |-> 0,
     collation |-> collation]
VarLenSizedPrecision(ty, size, precision, scale) ==
    [kind |-> "VarLenSizedPrecision", ty |-> ty, len |-> size, precision |-> precision,
     scale |-> scale, collation |-> "none"]
XmlInfo(size) ==
    [kind |-> "Xml", ty |-> "Xml", len |-> size, precision |-> 0, scale |-> 0,
     collation |-> "none"]

\* the declared length from which a string or binary type is a max type
MaxLength == 65535

\* ColumnData: a variant holding Some of its content or None; the content is
\* a sequence of numbers: the integer, the bits of a float, the characters of
\* a string, the bytes of a binary or a GUID, the fields of a date or time
Some(variant, v) == [variant |-> variant, some |-> TRUE, v |-> v]
None(variant) == [variant |-> variant, some |-> FALSE, v |-> <<>>]

\* the characters of the strings: a, e acute, a CJK ideograph outside
\* windows-1252, and an emoji outside the basic multilingual plane
Characters == {97, 233, 20013, 128512}
Strings == UNION {[1..n -> Characters] : n \in 0..MaxChars}
Binaries == UNION {[1..n -> {0, 255}] : n \in 0..MaxChars}

\* str::encode_utf16 of one character, and of a string
Utf16(c) ==
    IF c < 65536 THEN <<c>>
    ELSE <<55296 + ((c - 65536) \div 1024), 56320 + ((c - 65536) % 1024)>>

RECURSIVE EncodeUtf16(_)
EncodeUtf16(s) ==
    IF s = <<>> THEN <<>> ELSE Utf16(Head(s)) \o EncodeUtf16(Tail(s))

\* the code units as bytes, dst.put_u16_le(chr) for each
RECURSIVE Units(_)
Units(units) == IF units = <<>> THEN <<>> ELSE LE(Head(units), 2) \o Units(Tail(units))

\* the single-byte encoding of the collation: the characters it maps
Mappable(c) == c < 256

\* Time::len
TimeLen(scale) ==
    CASE scale \in 0..2 -> 3
      [] scale \in 3..4 -> 4
      [] scale \in 5..7 -> 5
      [] OTHER -> 0

RECURSIVE Pow10(_)
Pow10(n) == IF n = 0 THEN 1 ELSE 10 * Pow10(n - 1)

\* Time::eq: the times are equal as fractions of a second
TimeEq(inc1, scale1, inc2, scale2) ==
    IF scale1 <= scale2 THEN inc1 * Pow10(scale2 - scale1) = inc2
    ELSE inc1 = inc2 * Pow10(scale1 - scale2)

\* PartialEq of ColumnData: derived, with Time::eq for the times
Equal(a, b) ==
    /\ a.variant = b.variant /\ a.some = b.some
    /\ IF ~a.some THEN TRUE
       ELSE CASE a.variant = "Time" -> TimeEq(a.v[1], a.v[2], b.v[1], b.v[2])
              [] a.variant = "DateTime2" ->
                    a.v[1] = b.v[1] /\ TimeEq(a.v[2], a.v[3], b.v[2], b.v[3])
              [] a.variant = "DateTimeOffset" ->
                    /\ a.v[1] = b.v[1] /\ a.v[4] = b.v[4]
                    /\ TimeEq(a.v[2], a.v[3], b.v[2], b.v[3])
              [] a.variant = "Numeric" -> a.v[1] = b.v[1] /\ a.v[2] = b.v[2]
              [] OTHER -> a.v = b.v

\* guid::reorder_bytes
ReorderBytes(d) == <<d[4], d[3], d[2], d[1], d[6], d[5], d[8], d[7]>> \o SubSeq(d, 9, 16)

\* the results of encode: the bytes put into dst, an error, or a panic
EncodeOk(bytes) == [ok |-> TRUE, err |-> "none", bytes |-> bytes]
EncodeErr(kind) == [ok |-> FALSE, err |-> kind, bytes |-> <<>>]
\* an error returned after bytes were put into dst
EncodeErrAfter(kind, written) == [ok |-> FALSE, err |-> kind, bytes |-> written]

PlpNull == [i \in 1..8 |-> 255]
PlpUnknownLength == <<254>> \o [i \in 1..7 |-> 255]

\* Time::encode behind Time::len
EncodeTime(increments, scale) == LE(increments, TimeLen(scale))

\* the arm of a DateTime2 under VarLenType::Datetime2: the time is brought to
\* the scale of the column
Rescaled(increments, scale, to) ==
    IF scale = to THEN increments
    ELSE IF to > scale THEN increments * Pow10(to - scale)
    ELSE increments \div Pow10(scale - to)

\* Numeric::len and Numeric::encode
NumericLen(precision) ==
    CASE precision \in 1..9 -> 5
      [] precision \in 10..19 -> 9
      [] precision \in 20..28 -> 13
      [] OTHER -> 17
EncodeNumeric(v) ==
    <<NumericLen(v[3])>> \o <<IF v[1] < 0 THEN 0 ELSE 1>>
        \o LE(IF v[1] < 0 THEN -v[1] ELSE v[1], NumericLen(v[3]) - 1)

IsVarLen(ti, types) == ti.kind = "VarLenSized" /\ ti.ty \in types
IsFixed(ti, ty) == ti.kind = "FixedLen" /\ ti.ty = ty

\* a match whose last arm accepts what no arm before it took
EncodeAnyway(value, ti) == EncodeOk(<<0>>)

\* the last arm of the match: (v, ref ti) => Err(Error::BulkInput(..))
InvalidDataType(value, ti) == EncodeErr("BulkInput")

\* the arms of a variant that is written behind a one-byte length under its
\* nullable type and bare under its fixed-length type; every other TypeInfo
\* falls through to the last arm of the match
Prefixed(value, ti, nullable, fixed, data) ==
    IF IsVarLen(ti, {nullable})
    THEN EncodeOk(IF value.some THEN <<Len(data)>> \o data ELSE <<0>>)
    ELSE IF value.some /\ IsFixed(ti, fixed) THEN EncodeOk(data)
    ELSE InvalidDataType(value, ti)

\* the length prefix and the bytes of a string or binary value: two bytes of
\* length under a declared length, one chunk and its terminator under max
Sized(ti, bytes) ==
    IF ti.len < MaxLength
    THEN EncodeOk(LE(Len(bytes), 2) \o bytes)
    ELSE EncodeOk(PlpUnknownLength \o LE(Len(bytes), 4) \o bytes
                    \o (IF bytes # <<>> THEN LE(0, 4) ELSE <<>>))

\* a string or binary arm that writes whatever it is given
SizedUnchecked(ti, bytes, written) == Sized(ti, bytes)

\* the check of the encoded length against the declared one; the NVarchar and
\* NChar arm makes it after it has written the value behind an empty length
SizedChecked(ti, bytes, written) ==
    IF Len(bytes) > ti.len THEN EncodeErrAfter("BulkInput", written) ELSE Sized(ti, bytes)

\* what the NVarchar and NChar arm has put into dst when it checks the length
Unsized(ti, bytes) ==
    IF ti.len < MaxLength THEN LE(0, 2) \o bytes
    ELSE PlpUnknownLength \o LE(0, 4) \o bytes

SizedNull(ti) == EncodeOk(IF ti.len < MaxLength THEN <<255, 255>> ELSE PlpNull)

\* the arms of ColumnData::String
EncodeString(value, ti) ==
    IF IsVarLen(ti, {"BigChar", "BigVarChar"})
    THEN IF ~value.some THEN SizedNull(ti)
         ELSE IF ti.collation = "none" THEN EncodeErr("panic")
         ELSE IF \E i \in 1..Len(value.v) : ~Mappable(value.v[i])
              THEN EncodeErr("Encoding")
              ELSE SizedChecked(ti, value.v, <<>>)
    ELSE IF IsVarLen(ti, {"NVarchar", "NChar"})
    THEN IF ~value.some THEN SizedNull(ti)
         ELSE SizedChecked(ti, Units(EncodeUtf16(value.v)),
                           Unsized(ti, Units(EncodeUtf16(value.v))))
    ELSE InvalidDataType(value, ti)

\* the arm of ColumnData::Binary
EncodeBinary(value, ti) ==
    IF IsVarLen(ti, {"BigBinary", "BigVarBin"})
    THEN IF ~value.some THEN SizedNull(ti) ELSE SizedChecked(ti, value.v, <<>>)
    ELSE InvalidDataType(value, ti)

\* XmlData::encode: the text in UTF-16 as one chunk
EncodeXml(v) == Sized(XmlInfo(MaxLength), Units(EncodeUtf16(v)))

\* ColumnData::encode under a TypeInfo
Encode(value, ti) ==
    LET v == value.v
        var == value.variant
    IN  CASE var = "Bit" -> Prefixed(value, ti, "Bitn", "Bit", IF value.some THEN <<v[1]>> ELSE <<>>)
          [] var = "U8" -> Prefixed(value, ti, "Intn", "Int1", IF value.some THEN <<v[1]>> ELSE <<>>)
          [] var = "I16" ->
                Prefixed(value, ti, "Intn", "Int2", IF value.some THEN SignedLE(v[1], 2) ELSE <<>>)
          [] var = "I32" ->
                Prefixed(value, ti, "Intn", "Int4", IF value.some THEN SignedLE(v[1], 4) ELSE <<>>)
          [] var = "I64" ->
                Prefixed(value, ti, "Intn", "Int8", IF value.some THEN SignedLE(v[1], 8) ELSE <<>>)
          [] var = "F32" ->
                Prefixed(value, ti, "Floatn", "Float4", IF value.some THEN LE(v[1], 4) ELSE <<>>)
          [] var = "F64" ->
                Prefixed(value, ti, "Floatn", "Float8", IF value.some THEN LE(v[1], 8) ELSE <<>>)
          [] var = "Guid" ->
                Prefixed(value, ti, "Guid", "none", IF value.some THEN ReorderBytes(v) ELSE <<>>)
          [] var = "String" -> EncodeString(value, ti)
          [] var = "Binary" -> EncodeBinary(value, ti)
          [] var = "DateTime" ->
                Prefixed(value, ti, "Datetimen", "Datetime",
                         IF value.some THEN SignedLE(v[1], 4) \o LE(v[2], 4) ELSE <<>>)
          [] var = "SmallDateTime" ->
                Prefixed(value, ti, "Datetimen", "Datetime4",
                         IF value.some THEN LE(v[1], 2) \o LE(v[2], 2) ELSE <<>>)
          [] var = "Date" ->
                Prefixed(value, ti, "Daten", "none", IF value.some THEN LE(v[1], 3) ELSE <<>>)
          [] var = "Time" ->
                IF value.some /\ IsVarLen(ti, {"Timen"}) /\ TimeLen(v[2]) = 0
                THEN EncodeErr("Protocol")
                ELSE Prefixed(value, ti, "Timen", "none",
                              IF value.some THEN EncodeTime(v[1], v[2]) ELSE <<>>)
          [] var = "DateTime2" ->
                IF value.some /\ IsVarLen(ti, {"Datetime2"}) /\ TimeLen(ti.len) = 0
                THEN EncodeErr("Protocol")
                ELSE Prefixed(value, ti, "Datetime2", "none",
                              IF value.some
                              THEN EncodeTime(Rescaled(v[2], v[3], ti.len), ti.len)
                                        \o LE(v[1], 3)
                              ELSE <<>>)
          [] var = "DateTimeOffset" ->
                IF value.some /\ IsVarLen(ti, {"DatetimeOffsetn"}) /\ TimeLen(v[3]) = 0
                THEN EncodeErr("Protocol")
                ELSE Prefixed(value, ti, "DatetimeOffsetn", "none",
                              IF value.some
                              THEN EncodeTime(v[2], v[3]) \o LE(v[1], 3) \o SignedLE(v[4], 2)
                              ELSE <<>>)
          [] var = "Xml" ->
                IF ti.kind = "Xml"
                THEN IF value.some THEN EncodeXml(v) ELSE EncodeOk(PlpNull)
                ELSE InvalidDataType(value, ti)
          [] var = "Numeric" ->
                IF ti.kind = "VarLenSizedPrecision" /\ ti.ty \in {"Numericn", "Decimaln"}
                THEN IF ~value.some THEN EncodeOk(<<0>>)
                     ELSE IF ti.scale # v[2] THEN EncodeErr("panic")
                     ELSE EncodeOk(EncodeNumeric(v))
                ELSE InvalidDataType(value, ti)
          [] OTHER -> InvalidDataType(value, ti)

\* the results of decode: the value and what is left of the source, or an error
DecodeOk(value, rest) == [ok |-> TRUE, err |-> "none", value |-> value, rest |-> rest]
DecodeErr(kind, rest) == [ok |-> FALSE, err |-> kind, value |-> None("none"), rest |-> rest]

\* SqlReadBytes: n bytes are read and handed on, or the source ends before
ReadThen(src, n, Then(_, _)) ==
    IF Len(src) < n THEN DecodeErr("Io", src)
    ELSE Then(SubSeq(src, 1, n), SubSeq(src, n + 1, Len(src)))

\* plp::decode, the loop over the chunks: data read so far, bytes left of the
\* current chunk
RECURSIVE PlpChunks(_, _, _)
PlpChunks(src, data, chunk_data_left) ==
    IF chunk_data_left = 0
    THEN ReadThen(src, 4, LAMBDA size, rest :
            IF FromLE(size) = 0 THEN DecodeOk(Some("Binary", data), rest)
            ELSE PlpChunks(rest, data, FromLE(size)))
    ELSE ReadThen(src, 1, LAMBDA byte, rest :
            PlpChunks(rest, data \o byte, chunk_data_left - 1))

\* a plp::decode that takes the length of an empty value for NULL
PlpDecodeEmptyIsNull(src, len) ==
    IF len < MaxLength
    THEN ReadThen(src, 2, LAMBDA size, rest :
            IF size = <<255, 255>> \/ FromLE(size) = 0 THEN DecodeOk(None("Binary"), rest)
            ELSE ReadThen(rest, FromLE(size), LAMBDA data, left :
                    DecodeOk(Some("Binary", data), left)))
    ELSE ReadThen(src, 8, LAMBDA size, rest :
            IF size = PlpNull THEN DecodeOk(None("Binary"), rest)
            ELSE ReadThen(rest, 4, LAMBDA chunk, left :
                    IF FromLE(chunk) = 0 THEN DecodeOk(None("Binary"), left)
                    ELSE PlpChunks(rest, <<>>, 0)))

\* plp::decode: Option<Vec<u8>>, here as a Binary
PlpDecode(src, len) ==
    IF len < MaxLength
    THEN ReadThen(src, 2, LAMBDA size, rest :
            IF size = <<255, 255>> THEN DecodeOk(None("Binary"), rest)
            ELSE ReadThen(rest, FromLE(size), LAMBDA data, left :
                    DecodeOk(Some("Binary", data), left)))
    ELSE ReadThen(src, 8, LAMBDA size, rest :
            IF size = PlpNull THEN DecodeOk(None("Binary"), rest)
            ELSE PlpChunks(rest, <<>>, 0))

\* String::from_utf16 on the code units of the bytes
RECURSIVE DecodeUtf16(_)
DecodeUtf16(bytes) ==
    IF bytes = <<>> THEN <<>>
    ELSE LET unit == FromLE(SubSeq(bytes, 1, 2))
         IN  IF unit \in 55296..56319 /\ Len(bytes) >= 4
             THEN <<65536 + (unit - 55296) * 1024 + (FromLE(SubSeq(bytes, 3, 4)) - 56320)>>
                    \o DecodeUtf16(SubSeq(bytes, 5, Len(bytes)))
             ELSE <<unit>> \o DecodeUtf16(SubSeq(bytes, 3, Len(bytes)))

\* string::decode: the bytes of plp::decode in the encoding of the collation,
\* or in UTF-16
StringDecode(src, ty, len, variant) ==
    LET data == PlpDecode(src, len)
    IN  IF ~data.ok THEN data
        ELSE IF ~data.value.some THEN DecodeOk(None(variant), data.rest)
        ELSE IF ty \in {"BigChar", "BigVarChar"}
             THEN DecodeOk(Some(variant, data.value.v), data.rest)
             ELSE IF Len(data.value.v) % 2 # 0 THEN DecodeErr("Protocol", data.rest)
                  ELSE DecodeOk(Some(variant, DecodeUtf16(data.value.v)), data.rest)

\* a variant read behind its one-byte length: None for 0, Some of the bytes
\* for a length the type allows
ByLength(src, lengths, none, Some_(_, _), otherwise) ==
    ReadThen(src, 1, LAMBDA size, rest :
        IF size[1] = 0 THEN DecodeOk(none, rest)
        ELSE IF size[1] \notin lengths THEN DecodeErr(otherwise, rest)
        ELSE ReadThen(rest, size[1], LAMBDA data, left : DecodeOk(Some_(size[1], data), left)))

\* int::decode
IntDecode(src, type_len) ==
    ByLength(src, {1, 2, 4, 8},
             CASE type_len = 1 -> None("U8") [] type_len = 2 -> None("I16")
               [] type_len = 4 -> None("I32") [] OTHER -> None("I64"),
             LAMBDA n, data :
                CASE n = 1 -> Some("U8", <<data[1]>>)
                  [] n = 2 -> Some("I16", <<FromSignedLE(data)>>)
                  [] n = 4 -> Some("I32", <<FromSignedLE(data)>>)
                  [] OTHER -> Some("I64", <<FromSignedLE(data)>>),
             "panic")

\* float::decode
FloatDecode(src, type_len) ==
    ByLength(src, {4, 8}, IF type_len = 4 THEN None("F32") ELSE None("F64"),
             LAMBDA n, data : Some(IF n = 4 THEN "F32" ELSE "F64", <<FromLE(data)>>),
             "Protocol")

\* datetimen::decode behind the length byte var_len::decode reads
DatetimenDecode(src, len) ==
    ReadThen(src, 1, LAMBDA size, rest :
        CASE size[1] = 0 /\ len = 4 -> DecodeOk(None("SmallDateTime"), rest)
          [] size[1] = 0 /\ len = 8 -> DecodeOk(None("DateTime"), rest)
          [] size[1] = 4 ->
                ReadThen(rest, 4, LAMBDA data, left :
                    DecodeOk(Some("SmallDateTime", <<FromLE(SubSeq(data, 1, 2)),
                                                     FromLE(SubSeq(data, 3, 4))>>), left))
          [] size[1] = 8 ->
                ReadThen(rest, 8, LAMBDA data, left :
                    DecodeOk(Some("DateTime", <<FromSignedLE(SubSeq(data, 1, 4)),
                                                FromLE(SubSeq(data, 5, 8))>>), left))
          [] OTHER -> DecodeErr("Protocol", rest))

\* Time::decode for a column of scale n and rlen bytes received, then what
\* follows the time
TimeDecode(src, n, rlen, Then(_, _)) ==
    IF rlen # TimeLen(n) \/ TimeLen(n) = 0 THEN DecodeErr("Protocol", src)
    ELSE ReadThen(src, rlen, Then)

\* time::decode, datetime2::decode and datetimeoffsetn::decode
TimenDecode(src, len) ==
    ReadThen(src, 1, LAMBDA size, rest :
        IF size[1] = 0 THEN DecodeOk(None("Time"), rest)
        ELSE TimeDecode(rest, len, size[1], LAMBDA time, left :
                DecodeOk(Some("Time", <<FromLE(time), len>>), left)))

Datetime2Decode(src, len) ==
    ReadThen(src, 1, LAMBDA size, rest :
        IF size[1] = 0 THEN DecodeOk(None("DateTime2"), rest)
        ELSE TimeDecode(rest, len, size[1] - 3, LAMBDA time, left :
                ReadThen(left, 3, LAMBDA date, after :
                    DecodeOk(Some("DateTime2", <<FromLE(date), FromLE(time), len>>), after))))

DatetimeOffsetnDecode(src, len) ==
    ReadThen(src, 1, LAMBDA size, rest :
        IF size[1] = 0 THEN DecodeOk(None("DateTimeOffset"), rest)
        ELSE TimeDecode(rest, len, size[1] - 5, LAMBDA time, left :
                ReadThen(left, 3, LAMBDA date, after :
                    ReadThen(after, 2, LAMBDA offset, end :
                        DecodeOk(Some("DateTimeOffset",
                                      <<FromLE(date), FromLE(time), len,
                                        FromSignedLE(offset)>>), end)))))

\* Numeric::decode
NumericDecode(src, scale) ==
    ReadThen(src, 1, LAMBDA size, rest :
        IF size[1] = 0 THEN DecodeOk(None("Numeric"), rest)
        ELSE ReadThen(rest, size[1], LAMBDA data, left :
                LET magnitude == FromLE(Tail(data))
                IN  DecodeOk(Some("Numeric",
                                  <<IF data[1] = 0 THEN -magnitude ELSE magnitude, scale,
                                    0>>), left)))

\* fixed_len::decode; no value is encoded under Money4 and Money
FixedLenDecode(src, ty) ==
    CASE ty = "Null" -> DecodeOk(None("Bit"), src)
      [] ty = "Bit" ->
            ReadThen(src, 1, LAMBDA b, rest :
                DecodeOk(Some("Bit", <<IF b[1] # 0 THEN 1 ELSE 0>>), rest))
      [] ty = "Int1" -> ReadThen(src, 1, LAMBDA b, rest : DecodeOk(Some("U8", b), rest))
      [] ty = "Int2" ->
            ReadThen(src, 2, LAMBDA b, rest : DecodeOk(Some("I16", <<FromSignedLE(b)>>), rest))
      [] ty = "Int4" ->
            ReadThen(src, 4, LAMBDA b, rest : DecodeOk(Some("I32", <<FromSignedLE(b)>>), rest))
      [] ty = "Int8" ->
            ReadThen(src, 8, LAMBDA b, rest : DecodeOk(Some("I64", <<FromSignedLE(b)>>), rest))
      [] ty = "Float4" ->
            ReadThen(src, 4, LAMBDA b, rest : DecodeOk(Some("F32", <<FromLE(b)>>), rest))
      [] ty = "Float8" ->
            ReadThen(src, 8, LAMBDA b, rest : DecodeOk(Some("F64", <<FromLE(b)>>), rest))
      [] ty = "Datetime" ->
            ReadThen(src, 8, LAMBDA data, left :
                DecodeOk(Some("DateTime", <<FromSignedLE(SubSeq(data, 1, 4)),
                                            FromLE(SubSeq(data, 5, 8))>>), left))
      [] ty = "Datetime4" ->
            ReadThen(src, 4, LAMBDA data, left :
                DecodeOk(Some("SmallDateTime", <<FromLE(SubSeq(data, 1, 2)),
                                                 FromLE(SubSeq(data, 3, 4))>>), left))
      [] OTHER -> DecodeErr("Money", src)

\* var_len::decode; no value is encoded under Money, Text, NText, Image and
\* SSVariant
VarLenDecode(src, ti) ==
    CASE ti.ty = "Bitn" ->
            ByLength(src, {1}, None("Bit"),
                     LAMBDA n, data : Some("Bit", <<IF data[1] > 0 THEN 1 ELSE 0>>),
                     "Protocol")
      [] ti.ty = "Intn" -> IntDecode(src, ti.len)
      [] ti.ty = "Floatn" -> FloatDecode(src, ti.len)
      [] ti.ty = "Guid" ->
            ByLength(src, {16}, None("Guid"), LAMBDA n, data : Some("Guid", ReorderBytes(data)),
                     "Protocol")
      [] ti.ty \in {"BigChar", "BigVarChar", "NChar", "NVarchar"} ->
            StringDecode(src, ti.ty, ti.len, "String")
      [] ti.ty = "Datetimen" -> DatetimenDecode(src, ti.len)
      [] ti.ty = "Daten" ->
            ByLength(src, {3}, None("Date"), LAMBDA n, data : Some("Date", <<FromLE(data)>>),
                     "Protocol")
      [] ti.ty = "Timen" -> TimenDecode(src, ti.len)
      [] ti.ty = "Datetime2" -> Datetime2Decode(src, ti.len)
      [] ti.ty = "DatetimeOffsetn" -> DatetimeOffsetnDecode(src, ti.len)
      [] ti.ty \in {"BigBinary", "BigVarBin"} -> PlpDecode(src, ti.len)
      [] OTHER -> DecodeErr("panic", src)

\* ColumnData::decode
Decode(src, ti) ==
    CASE ti.kind = "FixedLen" -> FixedLenDecode(src, ti.ty)
      [] ti.kind = "VarLenSized" -> VarLenDecode(src, ti)
      [] ti.kind = "VarLenSizedPrecision" ->
            IF ti.ty \in {"Decimaln", "Numericn"} THEN NumericDecode(src, ti.scale)
            ELSE DecodeErr("panic", src)
      [] OTHER -> StringDecode(src, "Xml", ti.len, "Xml")

\* the collation of the char types: one with the windows-1252 encoding
Latin1 == "windows-1252"

\* the TypeInfos a value is encoded under
TypeInfos ==
    {FixedLen(ty) : ty \in {"Bit", "Int1", "Int2", "Int4", "Int8", "Float4", "Float8",
                            "Datetime", "Datetime4", "Money"}}
    \cup {VarLenSized("Bitn", 1, "none"), VarLenSized("Guid", 16, "none"),
          VarLenSized("Daten", 3, "none"), VarLenSized("Text", MaxLength, Latin1)}
    \cup {VarLenSized("Intn", len, "none") : len \in {1, 2, 4, 8}}
    \cup {VarLenSized(ty, len, "none") : ty \in {"Floatn", "Datetimen"}, len \in {4, 8}}
    \cup {VarLenSized(ty, len, "none") : ty \in {"NVarchar", "NChar"},
                                          len \in {2, 4, MaxLength}}
    \cup {VarLenSized(ty, len, Latin1) : ty \in {"BigVarChar", "BigChar"},
                                         len \in {1, 2, MaxLength}}
    \cup {VarLenSized(ty, len, "none") : ty \in {"BigVarBin", "BigBinary"},
                                         len \in {1, 2, MaxLength}}
    \cup {VarLenSized(ty, scale, "none") : ty \in {"Timen", "Datetime2", "DatetimeOffsetn"},
                                           scale \in {2, 7}}
    \cup {VarLenSizedPrecision("Numericn", 5, 9, 2), XmlInfo(MaxLength)}

Variants ==
    {"Bit", "U8", "I16", "I32", "I64", "F32", "F64", "Guid", "String", "Binary",
     "DateTime", "SmallDateTime", "Date", "Time", "DateTime2", "DateTimeOffset",
     "Numeric", "Xml"}

\* the values that are encoded
Values ==
    {None(variant) : variant \in Variants}
    \cup {Some("Bit", <<b>>) : b \in {0, 1}}
    \cup {Some("U8", <<8>>), Some("U8", <<255>>), Some("I16", <<8>>), Some("I16", <<-1>>),
          Some("I32", <<42>>), Some("I32", <<-32768>>), Some("I64", <<8>>),
          Some("I64", <<-2>>), Some("F32", <<1090519040>>), Some("F64", <<16416>>),
          Some("Guid", [i \in 1..16 |-> i]),
          Some("DateTime", <<200, 3000>>), Some("DateTime", <<-1, 0>>),
          Some("SmallDateTime", <<200, 3000>>), Some("Date", <<200>>),
          Some("Time", <<55, 7>>), Some("Time", <<55, 2>>),
          Some("DateTime2", <<55, 222, 7>>), Some("DateTime2", <<55, 22, 2>>),
          Some("DateTimeOffset", <<55, 222, 7, -8>>),
          Some("Numeric", <<-2301, 2, 4>>), Some("Numeric", <<23, 0, 2>>)}
    \cup {Some("String", s) : s \in Strings}
    \cup {Some("Xml", s) : s \in {<<>>, <<97>>}}
    \cup {Some("Binary", b) : b \in Binaries}

NoEncoded == [ok |-> FALSE, err |-> "none", bytes |-> <<>>]
NoDecoded == DecodeErr("none", <<>>)

\* a value is about to be encoded under a TypeInfo
InitCodec ==
    /\ ReadyConnection
    /\ framed_read = NoFramedRead /\ framed_write = NoFramedWrite
    /\ context = NewContext
    /\ sent = NoneSent
    /\ srv = ReadyServer
    /\ \E ti \in TypeInfos, value \in Values :
          call = [fn |-> "ColumnData::encode", ti |-> ti, value |-> value,
                  encoded |-> NoEncoded, decoded |-> NoDecoded, further |-> "none"]

codecIdle == <<ctlVars, connVars, sendVars, srv, ts, foldVars, yielded, errs, ret,
               discarded, hs, nreq, req, ndec, bulk, shim, items, sent, framed_read,
               framed_write>>

\* d.encode(&mut buf_with_ti)
ColumnEncode ==
    /\ call.fn = "ColumnData::encode"
    /\ call' = [call EXCEPT !.fn = "ColumnData::decode",
                            !.encoded = Encode(call.value, call.ti)]
    /\ UNCHANGED codecIdle

\* ColumnData::decode(reader, &ti) on the bytes encode has produced
ColumnDecode ==
    /\ call.fn = "ColumnData::decode" /\ call.encoded.ok
    /\ call' = [call EXCEPT !.fn = "read_u8",
                            !.decoded = Decode(call.encoded.bytes, call.ti)]
    /\ UNCHANGED codecIdle

\* reader.read_u8() behind the value decoded
ReadFurther ==
    /\ call.fn = "read_u8" /\ call.decoded.ok
    /\ call' = [call EXCEPT !.fn = "done",
                            !.further = IF call.decoded.rest = <<>> THEN "UnexpectedEof"
                                        ELSE "byte"]
    /\ UNCHANGED codecIdle

NextCodec == ColumnEncode \/ ColumnDecode \/ ReadFurther

SpecCodec == InitCodec /\ [][NextCodec]_vars

(*********** the transaction manager: connection/transaction_manager.rs ****)
\* TransactionManagerStatus: Valid with in_transaction None (depth 0) or
\* Some(depth, requires_rollback_maybe_up_to_top_level), or InError
ValidStatus(depth, requires_rollback) ==
    [valid |-> TRUE, depth |-> depth, requires_rollback |-> requires_rollback]
InError == [valid |-> FALSE, depth |-> 0, requires_rollback |-> FALSE]
NoTransaction == ValidStatus(0, FALSE)

\* the results of Client::execute: Ok, Error::Server(TokenError { code, state,
\* class }) or an error of another kind
ExecuteOk == [ok |-> TRUE, kind |-> "none", code |-> 0, state |-> 0, class |-> 0]
TokenError(code, state, class) ==
    [ok |-> FALSE, kind |-> "Server", code |-> code, state |-> state, class |-> class]
IoError == [ok |-> FALSE, kind |-> "Io", code |-> 0, state |-> 0, class |-> 0]
NotInTransactionCode == 3903
ExecuteResults ==
    {ExecuteOk, IoError, TokenError(NotInTransactionCode, 1, 16),
     TokenError(NotInTransactionCode, 2, 16), TokenError(NotInTransactionCode, 1, 15),
     TokenError(DeadlockCode, 1, 16)}

\* a pattern that looks at the code only
IsCode3903(r) == ~r.ok /\ r.kind = "Server" /\ r.code = NotInTransactionCode

\* the pattern Error::Server(TokenError { code: 3903, state: 1, class: 16, .. })
IsNotInTransaction(r) ==
    /\ ~r.ok /\ r.kind = "Server"
    /\ r.code = NotInTransactionCode /\ r.state = 1 /\ r.class = 16

\* MssqlConnection::batch_execute: the status it leaves and what it returns
BatchExecute(status, r) ==
    IF r.ok THEN [status |-> status, ret |-> "Ok"]
    ELSE IF IsNotInTransaction(r)
    THEN [status |-> NoTransaction, ret |-> "NotInTransaction"]
    ELSE [status |-> status, ret |-> "DeserializationError"]

\* ValidTransactionManagerStatus::change_transaction_depth
ChangeDepth(status, by) ==
    IF status.depth = 0
    THEN IF by = 1 THEN [status |-> ValidStatus(1, FALSE), ret |-> "Ok"]
         ELSE [status |-> status, ret |-> "NotInTransaction"]
    ELSE IF status.depth + by = 0 THEN [status |-> NoTransaction, ret |-> "Ok"]
    ELSE [status |-> [status EXCEPT !.depth = status.depth + by], ret |-> "Ok"]

\* get_transaction_state(conn)?.change_transaction_depth(..)
GetAndChangeDepth(status, by) ==
    IF ~status.valid THEN [status |-> status, ret |-> "BrokenTransactionManager"]
    ELSE ChangeDepth(status, by)

Savepoint(n) == "diesel_savepoint_" \o ToString(n)

\* the statement of begin_transaction at a depth
BeginSql(depth) ==
    IF depth = 0 THEN "BEGIN TRANSACTION" ELSE "SAVE TRANSACTION " \o Savepoint(depth)

\* a rollback that names the savepoint after the current depth
RollbackSqlAtDepth(depth) ==
    IF depth = 1 THEN "ROLLBACK" ELSE "ROLLBACK TRANSACTION " \o Savepoint(depth)

\* the statement of rollback_transaction at a depth
RollbackSql(depth) ==
    IF depth = 1 THEN "ROLLBACK" ELSE "ROLLBACK TRANSACTION " \o Savepoint(depth - 1)

\* the statement of commit_transaction at a depth
CommitSql(depth) ==
    IF depth = 1 THEN "COMMIT" ELSE "RELEASE SAVEPOINT " \o Savepoint(depth - 1)

\* what a call of the transaction manager leaves: the status, the statements
\* it has executed and its return value
Left(status, sql, returned) == [status |-> status, sql |-> sql, ret |-> returned]

\* MssqlTransactionManager::begin_transaction
BeginTransactionOf(status, r) ==
    IF ~status.valid THEN Left(status, <<>>, "BrokenTransactionManager")
    ELSE LET sql == BeginSql(status.depth)
             done == BatchExecute(status, r)
         IN  IF done.ret # "Ok" THEN Left(done.status, <<sql>>, done.ret)
             ELSE Left(GetAndChangeDepth(done.status, 1).status, <<sql>>,
                       GetAndChangeDepth(done.status, 1).ret)

\* MssqlTransactionManager::rollback_transaction
RollbackTransactionOf(status, r) ==
    IF ~status.valid THEN Left(status, <<>>, "BrokenTransactionManager")
    ELSE IF status.depth = 0 THEN Left(status, <<>>, "NotInTransaction")
    ELSE LET sql == RollbackSql(status.depth)
             top == status.depth = 1
             done == BatchExecute(status, r)
             after == done.status
         IN  IF done.ret = "Ok"
             THEN LET changed == GetAndChangeDepth(after, -1)
                  IN  IF changed.ret = "Ok" \/ (changed.ret = "NotInTransaction" /\ top)
                      THEN Left(changed.status, <<sql>>, "Ok")
                      ELSE Left(changed.status, <<sql>>, changed.ret)
             ELSE IF after.valid /\ after.depth > 1
             THEN Left(ValidStatus(after.depth - 1, TRUE), <<sql>>,
                       IF status.requires_rollback THEN "Ok" ELSE done.ret)
             ELSE IF after.valid /\ after.depth = 0 THEN Left(after, <<sql>>, done.ret)
             ELSE Left(InError, <<sql>>, done.ret)

\* MssqlTransactionManager::commit_transaction; r2 is the result of the
\* statement of the rollback it attempts after a failed commit
CommitTransactionOf(status, r, r2) ==
    IF ~status.valid THEN Left(status, <<>>, "BrokenTransactionManager")
    ELSE IF status.depth = 0 THEN Left(status, <<>>, "NotInTransaction")
    ELSE LET sql == CommitSql(status.depth)
             top == status.depth = 1
             done == BatchExecute(status, r)
             after == done.status
         IN  IF done.ret = "Ok"
             THEN LET changed == GetAndChangeDepth(after, -1)
                  IN  IF changed.ret = "Ok" \/ (changed.ret = "NotInTransaction" /\ top)
                      THEN Left(changed.status, <<sql>>, "Ok")
                      ELSE Left(changed.status, <<sql>>, changed.ret)
             ELSE IF after.valid /\ after.depth > 0 /\ after.requires_rollback
             THEN LET rolled == RollbackTransactionOf(after, r2)
                  IN  IF rolled.ret = "Ok"
                      THEN Left(rolled.status, <<sql>> \o rolled.sql, done.ret)
                      ELSE Left(InError, <<sql>> \o rolled.sql, "RollbackErrorOnCommit")
             ELSE Left(after, <<sql>>, done.ret)

\* a connection with its transaction manager, no call made yet
InitTx ==
    /\ ReadyConnection
    /\ framed_read = NoFramedRead /\ framed_write = NoFramedWrite
    /\ context = NewContext
    /\ sent = NoneSent
    /\ srv = ReadyServer
    /\ call = [fn |-> "none", status |-> NoTransaction, before |-> NoTransaction,
               sql |-> <<>>, ret |-> "none", r |-> ExecuteOk, open |-> <<>>,
               saves |-> <<>>]

\* the call has run: its name, the status before and after, the result of
\* its first statement, and the savepoints of the open transaction before
\* and after
TxDone(fn, r, left) ==
    [fn |-> fn, status |-> left.status, before |-> call.status,
     sql |-> left.sql, ret |-> left.ret, r |-> r, open |-> call.saves,
     saves |-> IF left.status.depth = 0 THEN <<>>
               ELSE IF left.status.depth > Len(call.saves) + 1
               THEN Append(call.saves, Savepoint(call.status.depth))
               ELSE SubSeq(call.saves, 1, left.status.depth - 1)]

\* conn.batch_execute(query) with a statement of the caller
BatchExecuteCall ==
    /\ \E r \in ExecuteResults :
          LET done == BatchExecute(call.status, r)
          IN  call' = TxDone("batch_execute", r, Left(done.status, <<"query">>, done.ret))
    /\ UNCHANGED codecIdle

BeginTransactionCall ==
    /\ call.status.depth < MaxDepth
    /\ \E r \in ExecuteResults :
          call' = TxDone("begin_transaction", r, BeginTransactionOf(call.status, r))
    /\ UNCHANGED codecIdle

RollbackTransactionCall ==
    /\ \E r \in ExecuteResults :
          call' = TxDone("rollback_transaction", r, RollbackTransactionOf(call.status, r))
    /\ UNCHANGED codecIdle

CommitTransactionCall ==
    /\ \E r \in ExecuteResults, r2 \in {ExecuteOk, IoError} :
          call' = TxDone("commit_transaction", r, CommitTransactionOf(call.status, r, r2))
    /\ UNCHANGED codecIdle

NextTx ==
    \/ BatchExecuteCall \/ BeginTransactionCall \/ RollbackTransactionCall
    \/ CommitTransactionCall

SpecTx == InitTx /\ [][NextTx]_vars

(****************** the framing layer: tds/codec/framed.rs *****************)
\* the bytes PacketType::try_from and PacketStatus::try_from accept
PacketTypes == {1, 2, 3, 4, 6, 7, 8, 14, 16, 17, 18}
PacketStatuses == {0, 1, 3, 8, 16}

\* put_u16 / get_u16: big endian
U16Bytes(n) == <<(n \div 256) % 256, n % 256>>
U16(hi, lo) == hi * 256 + lo

\* PacketHeader::encode
HeaderEncode(h) ==
    <<h.ty, h.status>> \o U16Bytes(h.length) \o U16Bytes(h.spid) \o <<h.id, h.window>>

\* the results of a Decoder and of the packet iterator
NothingYet == [k |-> "none"]
PacketItem(h, data) == [k |-> "packet", header |-> h, payload |-> data]
FramingErr(kind, message) == [k |-> "err", kind |-> kind, message |-> message]

\* PacketHeader::decode on the first HEADER_BYTES bytes of b
HeaderDecode(b) ==
    IF b[1] \notin PacketTypes THEN FramingErr("Protocol", "header: invalid packet type")
    ELSE IF b[2] \notin PacketStatuses
         THEN FramingErr("Protocol", "header: invalid packet status")
         ELSE [k |-> "header",
               header |-> [ty |-> b[1], status |-> b[2], length |-> U16(b[3], b[4]),
                           spid |-> U16(b[5], b[6]), id |-> b[7], window |-> b[8]]]

\* src.split_to(n): the first n bytes, and what stays in src
SplitTo(src, n) == [head |-> SubSeq(src, 1, n), rest |-> SubSeq(src, n + 1, Len(src))]

\* a decoder that does not wait for the declared bytes
PacketDecodeEager(src) ==
    IF Len(src) < HEADER_BYTES THEN [r |-> NothingYet, src |-> src]
    ELSE LET d == HeaderDecode(src)
             parts == SplitTo(SplitTo(src, HEADER_BYTES).rest,
                              Min(d.header.length - HEADER_BYTES, Len(src) - HEADER_BYTES))
         IN  IF d.k = "err" THEN [r |-> d, src |-> src]
             ELSE IF d.header.length < HEADER_BYTES
                  THEN [r |-> FramingErr("Protocol", "Invalid packet length"),
                        src |-> SplitTo(src, HEADER_BYTES).rest]
                  ELSE [r |-> PacketItem(d.header, parts.head), src |-> parts.rest]

\* PacketCodec::decode: the result, and what it leaves in src
PacketDecode(src) ==
    IF Len(src) < HEADER_BYTES THEN [r |-> NothingYet, src |-> src]
    ELSE LET d == HeaderDecode(src)
         IN  IF d.k = "err" THEN [r |-> d, src |-> src]
             ELSE IF Len(src) < d.header.length THEN [r |-> NothingYet, src |-> src]
             ELSE LET after == SplitTo(src, HEADER_BYTES).rest
                      parts == SplitTo(after, d.header.length - HEADER_BYTES)
                  IN  IF d.header.length < HEADER_BYTES
                      THEN [r |-> FramingErr("Protocol", "Invalid packet length"),
                            src |-> after]
                      ELSE [r |-> PacketItem(d.header, parts.head), src |-> parts.rest]

\* PacketCodec::decode_eof
PacketDecodeEof(b) ==
    LET d == PacketDecode(b)
    IN  IF d.r.k # "none" THEN d
        ELSE IF b = <<>> THEN d
        ELSE [r |-> FramingErr("Io", "bytes remaining on stream"), src |-> b]

\* an end of stream that ends the iteration whatever is buffered
AtEndQuiet(buffer) == [r |-> NothingYet, src |-> buffer]

\* FramedReadBuffer::next after a read of 0 bytes that completed no packet:
\* None on an empty buffer, else decode_eof's last attempt
AtEnd(buffer) ==
    IF buffer = <<>> THEN [r |-> NothingYet, src |-> buffer]
    ELSE LET e == PacketDecodeEof(buffer)
         IN  IF e.r.k # "none" THEN e
             ELSE IF e.src = <<>> THEN e
             ELSE [r |-> FramingErr("Io", "bytes remaining in stream"), src |-> e.src]

\* the frames a peer writes: a packet that declares its length, a header that
\* declares fewer than HEADER_BYTES bytes, a header with a type byte of no
\* PacketType
FrameKinds ==
    {[kind |-> "packet", length |-> HEADER_BYTES + n] : n \in 0..MaxBody}
        \cup {[kind |-> "short", length |-> HEADER_BYTES - 1],
              [kind |-> "untyped", length |-> HEADER_BYTES]}

\* the bytes of the i-th frame; its payload bytes tell frame and offset
FramePayload(f, i) ==
    IF f.kind = "packet" THEN [j \in 1..(f.length - HEADER_BYTES) |-> 16 * i + j] ELSE <<>>
FrameHeader(f, i) ==
    [ty |-> IF f.kind = "untyped" THEN 0 ELSE 4, status |-> 1, length |-> f.length,
     spid |-> 0, id |-> i, window |-> 0]
FrameBytes(f, i) == HeaderEncode(FrameHeader(f, i)) \o FramePayload(f, i)

RECURSIVE StreamOf(_, _)
StreamOf(frames, n) ==
    IF n = 0 THEN <<>> ELSE StreamOf(frames, n - 1) \o FrameBytes(frames[n], n)

FrameSeqs == UNION {[1..n -> FrameKinds] : n \in 0..MaxFrames}

\* a FramedReadBuffer over a stream that carries the first `cut` bytes of the
\* frames and then ends, with end of file or with an IO error
NewFramedRead(frames, cut, ending) ==
    [stream |-> SubSeq(StreamOf(frames, Len(frames)), 1, cut), ending |-> ending,
     buffer |-> <<>>, pos |-> "idle", last |-> [k |-> "start"], got |-> <<>>,
     nread |-> 0, ended |-> FALSE, frames |-> frames, cut |-> cut]

InitFramedRead ==
    /\ ReadyConnection /\ context = NewContext /\ srv = ReadyServer /\ sent = NoneSent
    /\ framed_write = NoFramedWrite /\ call = NoCall
    /\ \E frames \in FrameSeqs, ending \in {"eof", "error"} :
        \E cut \in 0..Len(StreamOf(frames, Len(frames))) :
            framed_read = NewFramedRead(frames, cut, ending)

readIdle == <<ctlVars, connVars, sendVars, srv, ts, foldVars, yielded, errs, ret,
              discarded, hs, nreq, req, ndec, bulk, shim, items, sent, framed_write,
              call>>

\* next returns: Some(item), or None at the end of the stream
FramedReturn(r, d) ==
    [r EXCEPT !.pos = "idle", !.last = d.r, !.buffer = d.src,
              !.got = IF d.r.k = "none" THEN @ ELSE Append(@, d.r)]

\* FramedReadBuffer::next: the decode that precedes the first read
FramedNext ==
    /\ framed_read.pos = "idle"
    /\ Len(framed_read.got) < MaxCalls
    /\ LET d == PacketDecode(framed_read.buffer)
       IN  framed_read' = IF d.r.k # "none" THEN FramedReturn(framed_read, d)
                          ELSE [framed_read EXCEPT !.pos = "loop", !.ended = FALSE]
    /\ UNCHANGED readIdle

\* one turn of the loop of next: a read of n bytes, n = 0 at the end of the
\* stream, and the decode that follows
FramedRead ==
    /\ framed_read.pos = "loop"
    /\ \E n \in 0..Len(framed_read.stream) :
        /\ n = 0 <=> framed_read.stream = <<>>
        /\ IF n = 0 /\ framed_read.ending = "error"
           THEN framed_read' = FramedReturn(framed_read,
                    [r |-> FramingErr("Io", "read"), src |-> framed_read.buffer])
           ELSE LET read == SplitTo(framed_read.stream, n)
                    buffer == framed_read.buffer \o read.head
                    d == PacketDecode(buffer)
                    r == [framed_read EXCEPT !.stream = read.rest, !.nread = @ + n,
                                             !.buffer = buffer]
                IN  framed_read' =
                        IF d.r.k # "none" THEN FramedReturn(r, d)
                        ELSE IF n = 0
                             THEN FramedReturn([r EXCEPT !.ended = TRUE], AtEnd(buffer))
                        ELSE r
    /\ UNCHANGED readIdle

NextFramedRead == FramedNext \/ FramedRead

SpecFramedRead == InitFramedRead /\ [][NextFramedRead]_vars

(***************** FramedWriteBuffer: send and flush ***********************)
\* Packet::encode: the header, with the length of the whole packet, and the
\* payload are appended to dst
PacketEncode(item, dst) ==
    dst \o HeaderEncode([item.header EXCEPT !.length = HEADER_BYTES + Len(item.payload)])
        \o item.payload

\* the packets handed to send: the n-th has id n and a payload of `body` bytes
OutPacket(n, body) ==
    PacketItem([ty |-> 1, status |-> 1, length |-> 0, spid |-> 0, id |-> n, window |-> 0],
               [j \in 1..body |-> 16 * n + j])

\* Framed::set_send_high_water_mark: the default, or a mark that one buffered
\* packet reaches
HighWaterMarks == {DEFAULT_SEND_HIGH_WATER_MARK, HEADER_BYTES}

\* FramedWriteBuffer::new over a stream
NewFramedWrite(mark) ==
    [buffer |-> <<>>, high_water_mark |-> mark, out |-> <<>>, passed |-> <<>>,
     pos |-> "idle", item |-> NothingYet, last |-> [fn |-> "none", k |-> "none"],
     refused |-> FALSE, nsent |-> 0, split |-> FALSE, encoded |-> <<>>]

InitFramedWrite ==
    /\ ReadyConnection /\ context = NewContext /\ srv = ReadyServer /\ sent = NoneSent
    /\ framed_read = NoFramedRead /\ call = NoCall
    /\ \E mark \in HighWaterMarks : framed_write = NewFramedWrite(mark)

writeIdle == <<ctlVars, connVars, sendVars, srv, ts, foldVars, yielded, errs, ret,
               discarded, hs, nreq, req, ndec, bulk, shim, items, sent, framed_read,
               call>>

\* self.buffer.advance(num_write)
Advance(buffer, n) == SubSeq(buffer, n + 1, Len(buffer))

\* send or flush returns
WriteReturn(w, fn, k, kind) ==
    [w EXCEPT !.pos = "idle", !.item = NothingYet,
              !.last = [fn |-> fn, k |-> k, kind |-> kind]]

\* self.inner.write(&self.buffer)?, the test for 0 and the advance: the stream
\* takes n bytes off the front of the buffer, or none, or fails
WriteTurn(w, fn) ==
    \/ \E n \in 0..Len(w.buffer) :
          framed_write' =
              IF n = 0
              THEN WriteReturn([w EXCEPT !.refused = TRUE], fn, "err", "UnexpectedEof")
              ELSE [w EXCEPT !.split = @ \/ n < Len(w.buffer),
                             !.out = @ \o SubSeq(w.buffer, 1, n),
                             !.buffer = Advance(@, n)]
    \/ framed_write' = WriteReturn(w, fn, "err", "Io")

\* a send that never writes before it encodes
NeverAboveMark(buffer, mark) == FALSE
\* send: the test of `while self.buffer.len() >= self.high_water_mark`
AboveMark(buffer, mark) == Len(buffer) >= mark

\* Sink::send is called with a packet
WriteSend ==
    /\ framed_write.pos = "idle"
    /\ framed_write.nsent < MaxFrames
    /\ \E body \in 0..MaxBody :
          framed_write' = [framed_write EXCEPT !.pos = "send", !.refused = FALSE,
                               !.nsent = @ + 1,
                               !.item = OutPacket(framed_write.nsent + 1, body)]
    /\ UNCHANGED writeIdle

\* send: while self.buffer.len() >= self.high_water_mark
WriteSendDrain ==
    /\ framed_write.pos = "send"
    /\ AboveMark(framed_write.buffer, framed_write.high_water_mark)
    /\ WriteTurn(framed_write, "send")
    /\ UNCHANGED writeIdle

\* send: self.inner.encode(item, &mut self.buffer)
WriteSendEncode ==
    /\ framed_write.pos = "send"
    /\ ~AboveMark(framed_write.buffer, framed_write.high_water_mark)
    /\ framed_write' =
          WriteReturn([framed_write EXCEPT
                          !.buffer = PacketEncode(framed_write.item, @),
                          !.encoded = PacketEncode(framed_write.item, <<>>),
                          !.passed = PacketEncode(framed_write.item, @)],
                      "send", "ok", "none")
    /\ UNCHANGED writeIdle

\* Sink::flush is called
WriteFlush ==
    /\ framed_write.pos = "idle"
    /\ framed_write.nsent > 0
    /\ framed_write' = [framed_write EXCEPT !.pos = "flush", !.refused = FALSE]
    /\ UNCHANGED writeIdle

\* a flush that hands the stream nothing of what is buffered
DrainedAlready(buffer) == TRUE

\* flush: the test of `while !self.buffer.is_empty()`
Drained(buffer) == buffer = <<>>

WriteFlushDrain ==
    /\ framed_write.pos = "flush"
    /\ ~Drained(framed_write.buffer)
    /\ WriteTurn(framed_write, "flush")
    /\ UNCHANGED writeIdle

\* flush: self.inner.flush()
WriteFlushEnd ==
    /\ framed_write.pos = "flush"
    /\ Drained(framed_write.buffer)
    /\ \E flushes \in BOOLEAN :
          framed_write' = IF flushes THEN WriteReturn(framed_write, "flush", "ok", "none")
                          ELSE WriteReturn(framed_write, "flush", "err", "Io")
    /\ UNCHANGED writeIdle

NextFramedWrite ==
    \/ WriteSend \/ WriteSendDrain \/ WriteSendEncode
    \/ WriteFlush \/ WriteFlushDrain \/ WriteFlushEnd

SpecFramedWrite == InitFramedWrite /\ [][NextFramedWrite]_vars

(************* TlsPreloginWrapper on its own: client/tls.rs ****************)
PreLoginType == 18
EndOfMessageStatus == 1

\* TlsPreloginWrapper::new: wr_buf holds the place of the header
NewPreloginWrapper ==
    [pending_handshake |-> TRUE, header_buf |-> Zeros(HEADER_BYTES), header_pos |-> 0,
     read_remaining |-> 0, wr_buf |-> Zeros(HEADER_BYTES), header_written |-> FALSE]

\* PacketHeader::new(length, 0) with the type and the status flush sets
PreloginHeader(length) ==
    [ty |-> PreLoginType, status |-> EndOfMessageStatus, length |-> length, spid |-> 0,
     id |-> 0, window |-> 0]

\* the packets of the server during the handshake: the k-th carries `body`
\* bytes of the TLS session
InPacket(k, ty, body) ==
    HeaderEncode([PreloginHeader(HEADER_BYTES + body) EXCEPT !.ty = ty])
        \o [j \in 1..body |-> 32 * k + j]

\* what the server sends: PRELOGIN packets, the first one with any payload
\* and the last one possibly of the type of a response
InStreams ==
    UNION {{[k \in 1..n |-> [ty |-> IF k = n THEN last ELSE PreLoginType,
                             body |-> IF k = 1 THEN first ELSE MaxBody]]
              : first \in 0..MaxBody, last \in {PreLoginType, 4}}
           : n \in 1..MaxFrames}

RECURSIVE Joined(_)
Joined(ss) == IF ss = <<>> THEN <<>> ELSE Head(ss) \o Joined(Tail(ss))

InBytes(packets) ==
    Joined([k \in 1..Len(packets) |-> InPacket(k, packets[k].ty, packets[k].body)])
InPayloads(packets) ==
    [k \in 1..Len(packets) |-> [j \in 1..packets[k].body |-> 32 * k + j]]

\* Write::write of the wrapper: the wrapper after the call and the bytes that
\* went to the stream, which takes n of them when the wrapper passes them on
WrapperWrite(w, bytes, n) ==
    IF ~w.pending_handshake THEN [w |-> w, emitted |-> SubSeq(bytes, 1, n), ret |-> n]
    ELSE [w |-> [w EXCEPT !.wr_buf = @ \o bytes], emitted |-> <<>>, ret |-> Len(bytes)]

\* Write::flush of the wrapper; the stream takes `taken` bytes and fails the
\* next write when that is less than the packet
WrapperFlush(w, taken) ==
    IF w.pending_handshake /\ Len(w.wr_buf) > HEADER_BYTES
    THEN LET packet == IF w.header_written THEN w.wr_buf
                       ELSE HeaderEncode(PreloginHeader(Len(w.wr_buf)))
                                \o SubSeq(w.wr_buf, HEADER_BYTES + 1, Len(w.wr_buf))
         IN  IF taken >= Len(packet)
             THEN [w |-> [w EXCEPT !.wr_buf = Zeros(HEADER_BYTES), !.header_written = FALSE],
                   emitted |-> packet, ok |-> TRUE]
             ELSE [w |-> [w EXCEPT !.wr_buf = SubSeq(packet, taken + 1, Len(packet)),
                                   !.header_written = TRUE],
                   emitted |-> SubSeq(packet, 1, taken), ok |-> FALSE]
    ELSE [w |-> w, emitted |-> <<>>, ok |-> TRUE]

\* a read that looks at the length of the caller's buffer only
MaxReadOfBuffer(read_remaining, len) == len
\* let max_read = cmp::min(self.read_remaining, buf.len())
MaxRead(read_remaining, len) == Min(read_remaining, len)

\* Read::read of the wrapper into a buffer of len bytes, the stream holding
\* inp and giving n bytes to the read of the payload
WrapperRead(w, inp, len, n) ==
    IF ~w.pending_handshake
    THEN [w |-> w, got |-> SubSeq(inp, 1, Min(n, Min(len, Len(inp)))), k |-> "ok",
          inp |-> SubSeq(inp, Min(n, Min(len, Len(inp))) + 1, Len(inp))]
    ELSE IF w.header_pos < HEADER_BYTES /\ Len(inp) < HEADER_BYTES - w.header_pos
    THEN \* the stream ends inside the header: read == 0
         [w |-> [w EXCEPT !.header_pos = @ + Len(inp),
                          !.header_buf = SubSeq(@, 1, w.header_pos) \o inp
                              \o Zeros(HEADER_BYTES - w.header_pos - Len(inp))],
          got |-> <<>>, k |-> "ok", inp |-> <<>>]
    ELSE LET fill == IF w.header_pos < HEADER_BYTES THEN HEADER_BYTES - w.header_pos ELSE 0
             header_buf == SubSeq(w.header_buf, 1, w.header_pos) \o SubSeq(inp, 1, fill)
             decoded == HeaderDecode(header_buf)
             in == SubSeq(inp, fill + 1, Len(inp))
         IN  IF fill > 0 /\ decoded.k = "err"
             THEN [w |-> [w EXCEPT !.header_buf = header_buf, !.header_pos = HEADER_BYTES],
                   got |-> <<>>, k |-> "err", inp |-> in]
             ELSE IF fill > 0 /\ decoded.header.ty # PreLoginType
             THEN [w |-> [w EXCEPT !.header_buf = header_buf, !.header_pos = HEADER_BYTES],
                   got |-> <<>>, k |-> "panic", inp |-> in]
             ELSE LET remaining == IF fill > 0 THEN decoded.header.length - HEADER_BYTES
                                   ELSE w.read_remaining
                      read == Min(n, Min(MaxRead(remaining, len), Len(in)))
                  IN  [w |-> [w EXCEPT !.header_buf = header_buf,
                                       !.header_pos = IF remaining - read = 0 THEN 0
                                                      ELSE HEADER_BYTES,
                                       !.read_remaining = remaining - read],
                       got |-> SubSeq(in, 1, read), k |-> "ok",
                       inp |-> SubSeq(in, read + 1, Len(in))]

\* the wrapper over a stream on which the packets of the server arrive
InitShim ==
    /\ ReadyConnection /\ context = NewContext /\ srv = ReadyServer /\ sent = NoneSent
    /\ framed_read = NoFramedRead /\ framed_write = NoFramedWrite
    /\ \E packets \in InStreams :
          call = [fn |-> "new", k |-> "ok", w |-> NewPreloginWrapper, inp |-> InBytes(packets),
                  rest |-> InPayloads(packets), data |-> <<>>, nw |-> 0, nf |-> 0,
                  emitted |-> <<>>, got |-> <<>>, arg |-> <<>>,
                  was |-> [pending |-> TRUE, data |-> <<>>, rest |-> <<>>, inp |-> <<>>]]

\* the payload bytes the server has sent and the TLS session has yet to see,
\* packet by packet, after a read has returned got
RestAfter(rest, got) ==
    IF rest = <<>> THEN <<>>
    ELSE IF got = Head(rest) THEN Tail(rest)
    ELSE <<SubSeq(Head(rest), Len(got) + 1, Len(Head(rest)))>> \o Tail(rest)

\* a call has returned: what it needed of the state it was made in
Called(fn, k, w) ==
    [call EXCEPT !.fn = fn, !.k = k, !.w = w, !.emitted = <<>>, !.got = <<>>, !.arg = <<>>,
                 !.was = [pending |-> call.w.pending_handshake,
                          data |-> IF fn \in {"write", "flush"} THEN call.data ELSE <<>>,
                          rest |-> IF fn = "read" THEN call.rest ELSE <<>>,
                          inp |-> IF fn = "read" THEN call.inp ELSE <<>>]]

\* the TLS session, or the framing layer after the handshake, writes
ShimWrite ==
    /\ call.k = "ok" /\ call.nw < MaxFlight
    /\ \E len \in 1..(MaxFlight - call.nw), n \in 1..MaxFlight :
          /\ n <= len
          /\ LET bytes == [j \in 1..len |-> 200 + 8 * call.nf + call.nw + j]
                 r == WrapperWrite(call.w, bytes, n)
             IN  call' = [Called("write", "ok", r.w) EXCEPT
                              !.emitted = r.emitted, !.arg = bytes,
                              !.nw = @ + len,
                              !.data = IF call.w.pending_handshake THEN @ \o bytes ELSE @]
    /\ UNCHANGED codecIdle

\* flush; an error of the stream ends the handshake
ShimFlush ==
    /\ call.k = "ok" /\ call.nf < MaxFrames
    /\ \E taken \in {0, HEADER_BYTES + 1, HEADER_BYTES + MaxFlight} :
          LET r == WrapperFlush(call.w, taken)
          IN  call' = [Called("flush", IF r.ok THEN "ok" ELSE "err", r.w) EXCEPT
                           !.emitted = r.emitted, !.nf = @ + 1, !.nw = 0, !.data = <<>>]
    /\ UNCHANGED codecIdle

\* read into a buffer of one byte or of a whole packet
ShimRead ==
    /\ call.k = "ok"
    /\ call.inp # <<>> \/ call.fn # "read"
    /\ \E len \in {1, HEADER_BYTES + MaxBody}, n \in 1..MaxBody :
          LET r == WrapperRead(call.w, call.inp, len, n)
          IN  call' = [Called("read", r.k, r.w) EXCEPT
                           !.got = r.got, !.inp = r.inp,
                           !.rest = IF call.w.pending_handshake /\ r.k = "ok"
                                    THEN RestAfter(@, r.got) ELSE @]
    /\ UNCHANGED codecIdle

\* handshake_complete
ShimHandshakeComplete ==
    /\ call.k = "ok" /\ call.w.pending_handshake
    /\ call' = Called("handshake_complete", "ok",
                      [call.w EXCEPT !.pending_handshake = FALSE])
    /\ UNCHANGED codecIdle

NextShim == ShimWrite \/ ShimFlush \/ ShimRead \/ ShimHandshakeComplete

SpecShim == InitShim /\ [][NextShim]_vars

(******************** Connection::send on its own **************************)
\* the packet sizes in force when a message is sent: a packet carries at
\* least one byte of payload
PacketSizes == {HEADER_BYTES + k : k \in 0..MaxMsgLen} \cup {DefaultPacketSize}

\* Connection::send is entered with any message, packet size and packet id
InitSend ==
    /\ phase = "Ready"
    /\ op = "Connection::send" /\ ip = 1 /\ sub = "start"
    /\ transport = "Raw"
    /\ enc = "none"
    /\ flushed \in BOOLEAN
    /\ buf = <<>>
    /\ \E p \in PacketSizes, id \in {0, 255} :
          /\ context = [NewContext EXCEPT !.packet_size = p, !.packet_id = id]
          /\ sent = Began((id + 255) % 256)
    /\ payload = <<>> /\ header = NoHeader /\ msg = <<>> /\ wire = <<>>
    /\ srv = ReadyServer
    /\ ts = NoErr
    /\ fd = NewFlushDone
    /\ rows_affected = <<>>
    /\ columns = 0
    /\ qs = NewQueryStream
    /\ yielded = NoItem
    /\ errs = <<>>
    /\ ret = NoRet
    /\ discarded = NoneDiscarded
    /\ result = NoResult
    /\ hs = <<>>
    /\ nreq = 0
    /\ req = NoReq
    /\ ndec = 0
    /\ bulk = NoBulk
    /\ shim = NoShim
    /\ NoCodec
    /\ items = <<>>

NextSend == SendBegin \/ SendLoop \/ SendFlush

SpecSend == InitSend /\ [][NextSend]_vars

(******************************* claims ************************************)
\* the request is about to be written: the send step of an entry point starts
AboutToWrite == op \in EntryPoints /\ Step \in SendSteps /\ sub = "start"

\* C1: every request entry point has had flush_stream return Ok when it starts
\* to write its request; at that point the leftover buffer is empty and the
\* prior response is consumed up to and including its end-of-message packet
\* (or the transport has ended), and a flush_stream entered with a response
\* unread never asks the transport for a packet after that end-of-message
\* packet.
FlushBeforeRequest ==
    /\ AboutToWrite => ret.fn = "flush_stream" /\ ret.ok
    /\ AboutToWrite =>
          /\ buf = <<>>
          /\ srv.closed \/ (flushed /\ srv.resp = 0 /\ srv.tok = NoTok)
    /\ (Step = "flush_stream" /\ sub = "blocked") => (srv.fresh /\ discarded.n = 0)

\* a request starts after flush_stream discarded two packets of a response
\* that was left unread, the second being the end of the message
FlushBeforeRequestWitness ==
    /\ AboutToWrite
    /\ ret.fn = "flush_stream" /\ ret.ok
    /\ discarded.n >= 2
    /\ flushed /\ ~srv.closed /\ srv.resp = 0

\* C2: flush_stream does not decode what it discards: it is out of its loop
\* once the end-of-message packet is read, and the only failure it returns is
\* the failure of the transport, whatever the discarded payloads hold.
FlushToleratesMalformed ==
    /\ (Step = "flush_stream" /\ sub = "loop") => ~flushed
    /\ (ret.fn = "flush_stream" /\ ~ret.ok) => ret.err = TransportError
    /\ (ret.fn = "flush_stream" /\ ret.ok /\ ~srv.closed) => flushed

\* flush_stream returned Ok after discarding bytes that are no token, or a
\* token cut by the end of the message
FlushToleratesMalformedWitness ==
    /\ ret.fn = "flush_stream" /\ ret.ok
    /\ discarded.bad
    /\ flushed /\ ~srv.closed

\* codec::collect_from: the payloads up to the first packet that is_last
RECURSIVE CollectFrom(_)
CollectFrom(packets) ==
    IF packets = <<>> THEN <<>>
    ELSE IF Head(packets).header.status = "EndOfMessage" THEN Head(packets).data
    ELSE Head(packets).data \o CollectFrom(Tail(packets))

\* the loop of Connection::send has written the whole message
SendWritten == Step \in SendSteps /\ sub = "loop" /\ payload = <<>>

\* C3: the packets written by send are N-1 NormalMessage packets followed by
\* one EndOfMessage packet, and collect_from over them gives the message back.
SendRoundTrip ==
    SendWritten =>
        /\ Len(wire) >= 1
        /\ \A i \in 1..Len(wire) :
              wire[i].header.status =
                  IF i = Len(wire) THEN "EndOfMessage" ELSE "NormalMessage"
        /\ CollectFrom(wire) = msg

\* a message of three bytes was written as three packets
SendRoundTripWitness ==
    /\ op = "Connection::send" /\ SendWritten
    /\ Len(wire) = 3 /\ Len(msg) = 3
    /\ msg[1] # msg[2]

\* C4: send writes ceil(L / (P - 8)) packets for L bytes under packet size P,
\* and every packet but the last carries exactly P - 8 bytes.
SendPacketCount ==
    LET capacity == context.packet_size - HEADER_BYTES
    IN  /\ (Step \in SendSteps /\ sub = "loop") =>
              \A i \in 1..(Len(wire) - 1) : Len(wire[i].data) = capacity
        /\ SendWritten =>
              /\ capacity >= 1
              /\ Len(wire) = (Len(msg) + capacity - 1) \div capacity

\* a message of P - 8 + 1 bytes was written as two packets, with P - 8 > 1
SendPacketCountWitness ==
    /\ op = "Connection::send" /\ SendWritten
    /\ context.packet_size - HEADER_BYTES > 1
    /\ Len(msg) = context.packet_size - HEADER_BYTES + 1
    /\ Len(wire) = 2

IsPrefix(s, t) == Len(s) <= Len(t) /\ SubSeq(t, 1, Len(s)) = s

\* the handshake events in the order of connect, with and without TLS
HandshakeOrders ==
    {<<"send_prelogin", "prelogin_response", "tls_handshake", "send_login">>,
     <<"send_prelogin", "prelogin_response", "send_login">>}

\* C5: connect goes through PreLogin (send, response), the optional TLS
\* handshake, LoggingIn and the drain to DONE in this order, each once; LOGIN
\* follows the PRELOGIN response; connect returns the connection only after
\* flush_done returned the DONE token with no ERROR token decoded, and a
\* failure returns an error and leaves no connection to call.
ConnectOrder ==
    /\ \E order \in HandshakeOrders : IsPrefix(hs, order)
    /\ phase = "Disconnected" => hs = <<>>
    /\ phase = "PreLogin" =>
          hs \in {<<"send_prelogin">>, <<"send_prelogin", "prelogin_response">>}
    /\ phase = "TlsHandshake" =>
          hs = <<"send_prelogin", "prelogin_response", "tls_handshake">>
    /\ phase = "LoggingIn" => hs \in HandshakeOrders
    /\ (result.op = "connect" /\ result.ok) =>
          /\ phase = "Ready" /\ hs \in HandshakeOrders
          /\ ret.fn = "flush_done" /\ ret.ok /\ ret.tok.ty = "Done"
          /\ errs = <<>>
    /\ (result.op = "connect" /\ ~result.ok) => phase = "Failed" /\ result.err # NoErr
    /\ phase = "Failed" => op = "none" /\ nreq = 0
    /\ (phase = "Ready" /\ nreq = 0) => result.op = "connect" /\ result.ok

\* connect returned the connection after a TLS handshake
ConnectOrderWitness ==
    /\ result.op = "connect" /\ result.ok /\ phase = "Ready"
    /\ hs = <<"send_prelogin", "prelogin_response", "tls_handshake", "send_login">>
    /\ transport = "Tls"

\* flush_done has returned on a DONE token
ReturnedOnDone == ret.fn = "flush_done" /\ yielded.k = "Ok" /\ yielded.tok.ty = "Done"

\* C6: when flush_done meets its first DONE after an ERROR token of the same
\* response, it returns Error::Server and not the DONE token, and connect and
\* bulk_insert return that error.
ErrorBeforeDone ==
    (ReturnedOnDone /\ errs # <<>>) =>
        /\ ~ret.ok /\ ret.err.kind = "Server" /\ ret.tok = NoTok
        /\ op = "none" => (~result.ok /\ result.err = ret.err)

\* bulk_insert failed with the server error of its INSERT BULK response
ErrorBeforeDoneWitness ==
    /\ ReturnedOnDone /\ errs # <<>>
    /\ result.op = "Client::bulk_insert" /\ ~result.ok
    /\ result.err.kind = "Server"

\* C7: the remembered error is the first ERROR token of the response: the
\* error the iterator holds and raises, and the error flush_done returns,
\* carry the code of the first ERROR token decoded.
FirstErrorKept ==
    /\ ts # NoErr => (errs # <<>> /\ ts = ServerError(errs[1]))
    /\ (yielded.k = "Err" /\ yielded.e.kind = "Server") =>
          (errs # <<>> /\ yielded.e = ServerError(errs[1]))
    /\ (ret.fn = "flush_done" /\ ret.err.kind = "Server") =>
          (errs # <<>> /\ ret.err = ServerError(errs[1]))

\* flush_done returned the first of two ERROR tokens with different codes
FirstErrorKeptWitness ==
    /\ ReturnedOnDone
    /\ Len(errs) = 2 /\ errs[1] # errs[2]
    /\ ret.err = ServerError(errs[1])

CompletionTypes == {"Done", "DoneProc", "DoneInProc"}

\* C8, as amended: the iterator raises the remembered error only at the end of
\* the response; there it yields Err with that error unless its code is the
\* exempt one (completion tokens met before are yielded as they are).
ErrorRaisedAtEnd ==
    /\ (yielded.k = "Err" /\ yielded.e.kind = "Server") => (IsEof /\ yielded.e = ts)
    /\ yielded.k = "None" => (IsEof /\ (ts = NoErr \/ ErrCode(ts) = ExemptCode))

\* ExecuteResult::new failed with the remembered error at the end of a
\* response in which completion tokens were met
ErrorRaisedAtEndWitness ==
    /\ result.op \in ExecuteOps /\ ~result.ok
    /\ yielded.k = "Err" /\ yielded.e = ts /\ ts.kind = "Server"
    /\ rows_affected # <<>>
    /\ IsEof

\* C8, as stated: with an error remembered, the iterator that feeds
\* ExecuteResult and QueryStream yields Err when a completion token is reached
\* or the response ends.
ErrorRaisedAtCompletion ==
    /\ (/\ Step \in {"execute_result", "forward_to_metadata", "qs_next"}
        /\ yielded.k = "Ok" /\ yielded.tok.ty \in CompletionTypes) => ts = NoErr
    /\ yielded.k = "None" => (ts = NoErr \/ ErrCode(ts) = ExemptCode)

\* C9: at the end of a response the iteration ends normally when the
\* remembered error has code 266 (ExecuteResult::new then returns Ok), and
\* fails for every other remembered server error.
ExemptErrorEndsNormally ==
    /\ (yielded.k = "None" /\ ts # NoErr) => ErrCode(ts) = ExemptCode
    /\ (yielded.k = "Err" /\ yielded.e.kind = "Server") => ErrCode(yielded.e) # ExemptCode
    /\ (yielded.k = "None" /\ op = "none" /\ result.op \in ExecuteOps) => result.ok

\* an execute returned Ok at the end of a response holding an ERROR token 266
ExemptErrorEndsNormallyWitness ==
    /\ yielded.k = "None" /\ ts = ServerError(ExemptCode)
    /\ op = "none" /\ result.op \in ExecuteOps /\ result.ok

\* what flush_done does before the response ends: it returns on the first
\* DONE, with that token when no error or routing was seen, and on nothing else
FlushDoneOnDone ==
    /\ (Step = "flush_done" /\ sub = "next" /\ yielded.k = "Ok") => yielded.tok.ty # "Done"
    /\ ret.fn = "flush_done" => (yielded.k # "Ok" \/ yielded.tok.ty = "Done")
    /\ (ReturnedOnDone /\ errs = <<>> /\ fd.routing = NoErr) =>
          (ret.ok /\ ret.tok = yielded.tok)

\* C10, as amended: flush_done returns the first DONE when no error or routing
\* was seen and skips every other token; when the response ends without DONE
\* it returns the protocol error, unless the iterator raises the remembered
\* server error at that end, which flush_done returns instead.
FlushDoneResults ==
    /\ FlushDoneOnDone
    /\ (ret.fn = "flush_done" /\ yielded.k = "None") => ret = FlushDoneAtEnd
    /\ (ret.fn = "flush_done" /\ yielded.k = "Err") => (~ret.ok /\ ret.err = yielded.e)

\* flush_done returned the server error of a response that ended without DONE
FlushDoneResultsWitness ==
    /\ ret.fn = "flush_done" /\ IsEof
    /\ yielded.k = "Err" /\ yielded.e.kind = "Server"
    /\ ret.err = yielded.e

\* C10, as stated: a response that ends without DONE makes flush_done return
\* the protocol error.
FlushDoneProtocolError ==
    /\ FlushDoneOnDone
    /\ (ret.fn = "flush_done" /\ IsEof /\ yielded.k \in {"None", "Err"}
        /\ (yielded.k = "Err" => yielded.e.kind = "Server")) =>
          ret.err = NeverDone

\* the tokens of the current response decoded so far
Decoded == SubSeq(srv.full, 1, ndec)

\* the positions of the routing ENVCHANGE tokens decoded so far
RoutingSeen ==
    {i \in 1..ndec : srv.full[i].ty = "EnvChange" /\ srv.full[i].kind = "Routing"}

\* the routing ENVCHANGE token decoded last
LastRouting == srv.full[CHOOSE i \in RoutingSeen : \A j \in RoutingSeen : j <= i]

\* C11: when flush_done meets DONE after a routing ENVCHANGE of the same
\* response, it returns Error::Routing with the host and port of that token
\* and not the DONE token; when an ERROR token was decoded too, before or
\* after the routing token, it returns the server error.
RoutingBeforeDone ==
    (ReturnedOnDone /\ RoutingSeen # {}) =>
        /\ ~ret.ok /\ ret.tok = NoTok
        /\ errs = <<>> => ret.err = RoutingError(LastRouting.a, LastRouting.b)
        /\ errs # <<>> => ret.err = ServerError(errs[1])
        /\ op = "none" => (~result.ok /\ result.err = ret.err)

\* bulk_insert failed with Error::Routing carrying the announced host and port
RoutingBeforeDoneWitness ==
    /\ ReturnedOnDone /\ RoutingSeen # {} /\ errs = <<>>
    /\ result.op = "Client::bulk_insert" /\ ~result.ok
    /\ result.err = RoutingError(1, 2)

IsColMetaData(token) == token.ty = "ColMetaData"
IsMetadata(item) == item.ty = "Metadata"

\* the COLMETADATA tokens decoded so far, and the one QueryStream has peeked
\* and not yet yielded
MetaTokens == SelectSeq(Decoded, IsColMetaData)
MetaPeeked == IF qs.peeked.k = "Ok" /\ qs.peeked.tok.ty = "NewResultset" THEN 1 ELSE 0

\* the positions of the Metadata items yielded before the item at position i
MetaBefore(i) == {j \in 1..(i - 1) : items[j].ty = "Metadata"}

\* C12: the k-th COLMETADATA token of the response is yielded as the Metadata
\* item with result_index k and the columns of that token; every Row item
\* carries the result_index and the columns of the Metadata item yielded last
\* before it, and there is such an item before every Row item.
ResultSetIndexing ==
    qs.alive =>
        LET metas == SelectSeq(items, IsMetadata)
        IN  /\ Len(metas) = Len(MetaTokens) - MetaPeeked
            /\ \A k \in 1..Len(metas) : metas[k] = MetadataItem(MetaTokens[k].a, k - 1)
            /\ \A i \in 1..Len(items) :
                   items[i].ty = "Row" =>
                      /\ MetaBefore(i) # {}
                      /\ LET j == CHOOSE m \in MetaBefore(i) : \A n \in MetaBefore(i) : n <= m
                         IN  items[i].a = items[j].a /\ items[i].b = items[j].b

\* a stream has yielded two result sets: metadata 0, its rows, metadata 1 with
\* other columns, and a row of the second result set
ResultSetIndexingWitness ==
    /\ qs.alive
    /\ Len(items) = 5
    /\ items[1] = MetadataItem(1, 0) /\ items[2] = RowItem(1, 1, 0)
    /\ items[4] = MetadataItem(2, 1) /\ items[5] = RowItem(2, 3, 1)

IsSurfaced(token) == token.ty \in {"ColMetaData", "Row", "NbcRow"}

\* what the caller sees of an item, and what it is to see of a token
Shape(item) == <<item.ty, IF item.ty = "Metadata" THEN item.a ELSE item.data>>
ShapeOf(token) == <<IF token.ty = "ColMetaData" THEN "Metadata" ELSE "Row", token.a>>
Shapes(tokens) == [i \in 1..Len(tokens) |-> ShapeOf(tokens[i])]
ItemShapes == [i \in 1..Len(items) |-> Shape(items[i])]

\* the position of the first COLMETADATA token decoded, ndec + 1 when there is none
FirstMeta ==
    LET at == {i \in 1..ndec : srv.full[i].ty = "ColMetaData"}
    IN  IF at = {} THEN ndec + 1 ELSE CHOOSE i \in at : \A j \in at : i <= j

\* the sequence without its last MetaPeeked elements
Unpeeked(seq) == SubSeq(seq, 1, Len(seq) - MetaPeeked)

\* the transaction ENVCHANGE tokens decoded so far
IsTransactionToken(token) == token \in TransactionTokens
TransactionSeen == SelectSeq(Decoded, IsTransactionToken)

\* the descriptor a transaction ENVCHANGE leaves in force
DescriptorOf(token) == IF token.kind = "BeginTransaction" THEN token.a ELSE 0

\* the QueryStream has returned the end of the iteration, or its failure
StreamEnded ==
    qs.alive /\ op = "none" /\ result.op = "QueryStream::next" /\ result.item.k = "None"
StreamFailed ==
    qs.alive /\ op = "none" /\ result.op = "QueryStream::next" /\ result.item.k = "Err"

\* C13, as amended: the items yielded by a QueryStream are the COLMETADATA, ROW
\* and NBCROW tokens of the response from its first COLMETADATA on, in arrival
\* order (what precedes the first COLMETADATA is consumed by
\* forward_to_metadata); the other tokens are not surfaced but their side
\* effect is applied when they are decoded; a server error makes the iteration
\* fail at the end of the response, unless its code is 266.
StreamSurfacesRows ==
    /\ qs.alive =>
          ItemShapes = Unpeeked(Shapes(SelectSeq(SubSeq(srv.full, FirstMeta, ndec), IsSurfaced)))
    /\ TransactionSeen # <<>> =>
          context.transaction_desc = DescriptorOf(TransactionSeen[Len(TransactionSeen)])
    /\ StreamEnded => (IsEof /\ (errs = <<>> \/ errs[1] = ExemptCode))
    /\ (StreamFailed /\ result.err.kind = "Server") =>
          (IsEof /\ errs # <<>> /\ errs[1] # ExemptCode /\ result.err = ServerError(errs[1]))

\* a row is yielded after the ENVCHANGE that lay before it in the response was
\* applied to the Context
StreamSurfacesRowsWitness ==
    /\ qs.alive /\ op = "none" /\ result.op = "QueryStream::next"
    /\ result.item = ItemOk(RowItem(1, 2, 0))
    /\ srv.full[ndec - 1] = BeginTransaction(5)
    /\ context.transaction_desc = 5
    /\ ItemShapes = <<<<"Metadata", 1>>, <<"Row", 1>>, <<"Row", 2>>>>

\* C13, as stated: the items yielded are all the COLMETADATA, ROW and NBCROW
\* tokens of the response, and the iteration fails when the response held an
\* ERROR token.
StreamSurfacesAllRows ==
    /\ qs.alive => ItemShapes = Unpeeked(Shapes(SelectSeq(Decoded, IsSurfaced)))
    /\ StreamEnded => errs = <<>>

\* ExecuteResult::new has returned Ok after reading the whole scripted response
Executed ==
    /\ op = "none" /\ result.ok
    /\ result.op \in ExecuteOps \cup {"BulkLoadRequest::finalize"}
    /\ ndec = Len(srv.full)

IsCompletion(token) == token.ty \in CompletionTypes
IsCounted(token) == IsCompletion(token) /\ ~(token.ty = "DoneProc" /\ token.a = 0)

RECURSIVE RowCounts(_)
RowCounts(tokens) ==
    IF tokens = <<>> THEN 0 ELSE Head(tokens).b + RowCounts(Tail(tokens))

\* the response without its last token when that is a DONE with no flags
WithoutTrailingDone(tokens) ==
    IF tokens # <<>> /\ tokens[Len(tokens)].ty = "Done" /\ tokens[Len(tokens)].a = 0
    THEN SubSeq(tokens, 1, Len(tokens) - 1)
    ELSE tokens

\* C14, as amended: ExecuteResult::total is the sum of the row counts of all
\* DONE and DONEINPROC tokens of the response and of the DONEPROC tokens with
\* a non-empty status; completion tokens with counts [3, 5, 0 (no flags)]
\* give 8.
TotalRowsAffected ==
    Executed =>
        /\ Total(rows_affected) = RowCounts(SelectSeq(srv.full, IsCounted))
        /\ Len(rows_affected) = Len(SelectSeq(srv.full, IsCounted))
        /\ srv.full \in {CountScriptsExample} => Total(rows_affected) = 8

\* an execute returned the total 3 for a response whose final DONEPROC without
\* flags carried a count of 2
TotalRowsAffectedWitness ==
    /\ Executed
    /\ srv.full = <<Done("DoneInProc", DoneCount, 3), Done("DoneProc", 0, 2)>>
    /\ Total(rows_affected) = 3

\* C14, as stated: the total is the sum of the row counts of all completion
\* tokens except a trailing DONE with no flags.
TotalExceptTrailingDone ==
    Executed =>
        Total(rows_affected) =
            RowCounts(SelectSeq(WithoutTrailingDone(srv.full), IsCompletion))

\* a token of the scripted response is decoded in this step
DecodesToken == ndec' = ndec + 1 /\ srv'.full = srv.full

\* a step sets the descriptor as the token it decodes says, leaves it alone when
\* it decodes no transaction ENVCHANGE, and builds requests with it
DescriptorStep ==
    /\ context'.transaction_desc =
          (IF DecodesToken /\ srv.full[ndec'] \in TransactionTokens
           THEN DescriptorOf(srv.full[ndec'])
           ELSE context.transaction_desc)
    /\ req'.kind \in {"send_rpc", "send_batch"} => req'.desc = context'.transaction_desc

\* C15: the transaction descriptor of the Context is zero initially; decoding
\* a begin-transaction ENVCHANGE sets it to the descriptor of the payload,
\* decoding a commit, rollback or defect ENVCHANGE sets it to zero, and
\* nothing else changes it; every batch or RPC request is built with the
\* descriptor the Context holds.
DescriptorFollowsEnvChange ==
    context.transaction_desc = 0 /\ [][DescriptorStep]_vars

\* a request is built with the descriptor of the transaction the previous
\* response began
DescriptorFollowsEnvChangeWitness ==
    /\ req.kind \in {"send_rpc", "send_batch"}
    /\ req.desc = 5 /\ context.transaction_desc = 5
    /\ nreq = 2

\* the payload bytes a packet may carry under the negotiated size
PayloadLimit(ctx) == ctx.packet_size - HEADER_BYTES

\* the packets written for the message under way respect the size n: none
\* carries more than n bytes, and each one before the last carries exactly n
Fragmented(packets, n) ==
    \A i \in 1..Len(packets) :
        /\ Len(packets[i].data) <= n
        /\ packets[i].header.status = "NormalMessage" => Len(packets[i].data) = n

\* a step changes the packet size only by decoding a packet-size ENVCHANGE, to
\* the size of the payload, and writes packets fragmented at the size in force
PacketSizeStep ==
    /\ context'.packet_size =
          (IF DecodesToken /\ srv.full[ndec'].ty = "EnvChange"
              /\ srv.full[ndec'].kind = "PacketSize"
           THEN srv.full[ndec'].a
           ELSE context.packet_size)
    /\ Fragmented(wire', PayloadLimit(context'))

\* C16: the packet size is 4096 until a packet-size ENVCHANGE is decoded and
\* is the size of the latest such token afterwards; every packet written by
\* Connection::send and by a BulkLoadRequest carries at most the current size
\* minus 8 payload bytes, and every packet before the last of a message
\* carries exactly that many.
PacketSizeFollowsEnvChange ==
    context.packet_size = DefaultPacketSize /\ [][PacketSizeStep]_vars

\* after the server announced 9 bytes, a bulk load of one column has written
\* three packets of one payload byte each for the row it was given
PacketSizeFollowsEnvChangeWitness ==
    /\ context.packet_size = HEADER_BYTES + 1
    /\ bulk.alive /\ bulk.rows = 1
    /\ Len(wire) = 3
    /\ \A i \in 1..3 : wire[i].header.ty = "BulkLoad" /\ Len(wire[i].data) = 1

\* the first packet of a message is written in this step
MessageBegins == wire = <<>> /\ wire' # <<>>

\* a request allocates its id in this step: the header of a send is built, or
\* a BulkLoadRequest is created
Allocates == (Step \in SendSteps /\ sub = "start") \/ (~bulk.alive /\ bulk'.alive)

\* the id the request of this step was given
Allocated == IF bulk'.alive /\ ~bulk.alive THEN bulk'.packet_id ELSE header'.id

\* the counter is a byte that a request advances by one, taking the old value
\* as its id; the packets of a message share the id of the message
PacketIdAllocation ==
    /\ context'.packet_id \in 0..255
    /\ IF Allocates
       THEN /\ Allocated = context.packet_id
            /\ context'.packet_id = (context.packet_id + 1) % 256
       ELSE context'.packet_id = context.packet_id
    /\ \A i \in 1..Len(wire') : wire'[i].header.id = wire'[1].header.id

ShimFramesHandshake ==
    /\ \A i \in 1..Len(wire) :
          wire[i].content = "handshake" => wire[i].header.ty = "PreLogin"
    /\ (shim.stage # "none" /\ ~shim.pending_handshake) => shim.stage = "established"

\* with rustls handshake_complete has run before the handshake began, and the
\* first flight of the handshake has left without a TDS header
ShimBypassed ==
    /\ shim.backend = "rustls" /\ ~shim.pending_handshake
    /\ Step = "send_login" /\ sub = "handshake"
    /\ shim.stage = "server_hello"
    /\ wire # <<>> /\ wire[1].header = NoHeader /\ wire[1].content = "handshake"

\* with native-tls the handshake has completed through the shim before
\* handshake_complete: two flights went out as PRELOGIN packets
ShimFramesHandshakeNative ==
    shim.backend = "native-tls" => ShimFramesHandshake

ShimFramesHandshakeNativeWitness ==
    /\ shim.backend = "native-tls" /\ ~shim.pending_handshake
    /\ shim.stage = "established" /\ transport = "Tls"
    /\ Len(wire) = 2
    /\ \A i \in 1..2 : wire[i] = Framed(ShimHeader, Zeros(MaxFlight), "handshake")

\* connect has gone through the TLS handshake
Handshaken == \E i \in 1..Len(hs) : hs[i] = "tls_handshake"

\* connect is running, or has returned and no request has begun since
Connecting == op = "connect" \/ hs # <<>>

\* C19, as amended: connect performs the TLS handshake only if the negotiated
\* level is other than NotSupported (with Off, "only use encryption for the
\* login procedure", it is performed); while no handshake was performed the
\* transport is the raw stream.
HandshakeUnlessNotSupported ==
    Connecting =>
        /\ Handshaken => enc \in EncryptionLevels \ {"NotSupported"}
        /\ ~Handshaken => transport = "Raw"

\* level Off was negotiated and the handshake was performed: the LOGIN message
\* is about to be sent over the TLS stream
HandshakeUnlessNotSupportedWitness ==
    /\ op = "connect" /\ Step = "send_login" /\ sub = "start"
    /\ enc = "Off" /\ Handshaken /\ transport = "Tls"

\* C19, as stated: the handshake is performed only if the negotiated level is
\* neither Off nor NotSupported; otherwise the transport stays the raw stream.
HandshakeUnlessOff ==
    Connecting =>
        /\ Handshaken => enc \in EncryptionLevels \ {"Off", "NotSupported"}
        /\ ~Handshaken => transport = "Raw"

\* the LOGIN message of connect has been sent and login returns
LoginSent == op = "connect" /\ Step = "send_login" /\ Step' = "flush_done"

LoginDowngradeStep ==
    /\ LoginSent => transport' = (IF enc = "Off" THEN "Raw" ELSE transport)
    /\ (Step = "send_login" /\ transport' # transport) => LoginSent

FrameOutcome(f, i) ==
    CASE f.kind = "packet" -> PacketItem(FrameHeader(f, i), FramePayload(f, i))
      [] f.kind = "short" -> FramingErr("Protocol", "Invalid packet length")
      [] OTHER -> FramingErr("Protocol", "header: invalid packet type")

\* the i-th frame is on the stream with all its bytes, after frames that the
\* decoder gets past
WholeFrame(r, i) ==
    /\ i <= Len(r.frames)
    /\ Len(StreamOf(r.frames, i)) <= r.cut
    /\ \A j \in 1..(i - 1) : r.frames[j].kind # "untyped"

\* C21: the i-th item of the packet iterator is the i-th frame of the stream,
\* a packet whose payload has the declared length minus 8 bytes, however the
\* reads split the stream; a declared length below 8 gives a protocol error;
\* a packet is yielded only when all the bytes of its frame have been read.
FramedYieldsPackets ==
    LET r == framed_read
    IN  \A i \in 1..Len(r.got) :
            /\ WholeFrame(r, i) => r.got[i] = FrameOutcome(r.frames[i], i)
            /\ r.got[i].k = "packet" =>
                /\ WholeFrame(r, i)
                /\ Len(r.got[i].payload) = r.got[i].header.length - HEADER_BYTES
                /\ Len(StreamOf(r.frames, i)) <= r.nread

\* a packet with a full payload was yielded, then the protocol error of a
\* header that declares 7 bytes
FramedYieldsPacketsWitness ==
    /\ Len(framed_read.got) = 2
    /\ framed_read.got[1].k = "packet" /\ Len(framed_read.got[1].payload) = MaxBody
    /\ framed_read.got[2] = FramingErr("Protocol", "Invalid packet length")
    /\ framed_read.nread = 2 * HEADER_BYTES + MaxBody

\* C22: when a read returns 0 bytes, the packet iterator returns None if the
\* read buffer is empty and an error if the buffer holds a partial header or a
\* partial packet; it returns None in no other case.
FramedEndOfStream ==
    LET r == framed_read
    IN  r.pos = "idle" =>
            /\ r.ended =>
                \/ r.buffer = <<>> /\ r.last.k = "none"
                \/ r.buffer # <<>> /\ r.last.k = "err" /\ r.last.kind = "Io"
            /\ r.last.k = "none" => r.ended /\ r.buffer = <<>> /\ r.stream = <<>>

\* the stream ended inside the payload of the second packet
FramedEndOfStreamWitness ==
    /\ framed_read.ended /\ framed_read.pos = "idle"
    /\ Len(framed_read.got) = 2
    /\ framed_read.got[1].k = "packet"
    /\ framed_read.got[2] = FramingErr("Io", "bytes remaining on stream")
    /\ Len(framed_read.buffer) > HEADER_BYTES

\* C23: when flush returns Ok the write buffer is empty and the stream has
\* got the bytes of every packet that send accepted, once each and in the
\* order of the sends (at any time what was written and what is buffered make
\* up those bytes); a write that accepts 0 bytes makes send or flush return
\* an UnexpectedEof error there and then.
FramedFlushWrites ==
    LET w == framed_write
    IN  /\ w.out \o w.buffer = w.passed
        /\ (w.pos = "idle" /\ w.last.fn = "flush" /\ w.last.k = "ok") =>
                w.buffer = <<>> /\ w.out = w.passed
        /\ w.refused =>
                w.pos = "idle" /\ w.last.k = "err" /\ w.last.kind = "UnexpectedEof"

\* two packets were passed to send and flush has returned Ok after the stream
\* took their bytes in several writes
FramedFlushWritesWitness ==
    /\ framed_write.pos = "idle"
    /\ framed_write.last.fn = "flush" /\ framed_write.last.k = "ok"
    /\ framed_write.nsent = 2 /\ framed_write.split
    /\ Len(framed_write.out) = 2 * (HEADER_BYTES + MaxBody)
    /\ framed_write.high_water_mark = DEFAULT_SEND_HIGH_WATER_MARK

\* the script holds a COLMETADATA token, and the columns that token carries
HasColMetaData(script) == \E i \in 1..Len(script) : script[i].ty = "ColMetaData"
ReceivedColumns(script) ==
    ColumnsOf(script[CHOOSE i \in 1..Len(script) : script[i].ty = "ColMetaData"].a)

\* names are the names of the columns of cols flagged Updateable, all of them
\* and in the order of cols
UpdateableOf(names, cols) ==
    \E f \in [1..Len(names) -> 1..Len(cols)] :
        /\ \A k \in 1..Len(names) : cols[f[k]].updateable /\ names[k] = cols[f[k]].name
        /\ \A k \in 1..(Len(names) - 1) : f[k] < f[k + 1]
        /\ \A i \in 1..Len(cols) : cols[i].updateable => \E k \in 1..Len(names) : f[k] = i

RECURSIVE PacketData(_)
PacketData(packets) ==
    IF packets = <<>> THEN <<>>
    ELSE Head(packets).data \o PacketData(Tail(packets))

\* the row tokens of the rows 1..n, in the order they were sent
RECURSIVE RowsBytes(_, _)
RowsBytes(n, cols) ==
    IF n = 0 THEN <<>> ELSE RowsBytes(n - 1, cols) \o RowBytes(n, cols)

\* the packet carries exactly n bytes under the bulk-load header of the request
FullPacket(packet, n) ==
    /\ packet.header = BulkHeader(bulk.packet_id, "NormalMessage")
    /\ Len(packet.data) = n

\* finalize has flushed its last packet and is about to read the response
Finalized ==
    op = "BulkLoadRequest::finalize" /\ Step = "execute_result" /\ sub = "start"

\* C25: the packets of a bulk load carry the COLMETADATA token, one row token
\* per row in send order and, after finalize, a DONE token; send writes a
\* packet only while more than the packet size minus 8 bytes are buffered, so
\* every packet but the last carries exactly that many bytes with
\* NormalMessage status and at most that many stay buffered after each send;
\* exactly one packet, the last, written by finalize, carries EndOfMessage.
BulkLoadFraming ==
    LET limit == PayloadLimit(context)
        stream == ColumnBytes(bulk.columns) \o RowsBytes(bulk.rows, bulk.columns)
    IN  /\ bulk.alive =>
            /\ \A i \in 1..Len(wire) : FullPacket(wire[i], limit)
            /\ PacketData(wire) \o bulk.buf = stream
            /\ bulk.rows > 0 => Len(bulk.buf) <= limit
            /\ wire # <<>> => bulk.buf # <<>>
        /\ Finalized =>
            /\ wire # <<>>
            /\ PacketData(wire) = stream \o DoneBytes
            /\ \A i \in 1..(Len(wire) - 1) : FullPacket(wire[i], limit)
            /\ wire[Len(wire)].header = BulkHeader(bulk.packet_id, "EndOfMessage")
            /\ Len(wire[Len(wire)].data) \in 1..limit

\* two rows of two columns were sent under a packet size of 10 and finalize
\* wrote the fifth and last packet: ten bytes in packets of two
BulkLoadFramingWitness ==
    /\ Finalized
    /\ context.packet_size = HEADER_BYTES + 2
    /\ bulk.rows = 2 /\ Len(bulk.columns) = 2
    /\ Len(wire) = 5
    /\ PacketData(wire) = <<129, 1, 3, 209, 1, 1, 209, 2, 2, 253>>

\* rpc_perform_query has built the request of the call
RequestBuilt == call.fn = "Client::rpc_perform_query" /\ call.request # NoRpcRequest

\* the comma-separated declarations `@Pi <type_name(value_i)>` of the first n
\* values
RECURSIVE Declarations(_, _)
Declarations(values, n) ==
    IF n = 0 THEN ""
    ELSE Declarations(values, n - 1) \o (IF n > 1 THEN "," ELSE "")
            \o "@P" \o ToString(n) \o " " \o TypeName(values[n])

\* C26: the RPC request of a parameterized query with n bound values names
\* the execute-SQL procedure, and its parameters are, in order, the SQL text,
\* the declaration string, and one parameter named @Pi per bound value in
\* binding order; the declaration string is the comma-separated list of
\* `@Pi <type_name(value_i)>` and is empty when n = 0.
RpcParameterList ==
    RequestBuilt =>
        LET request == call.request
            n == Len(call.params)
        IN  /\ request.proc_id = "ExecuteSQL"
            /\ Len(request.params) = n + 2
            /\ request.params[1].value = TextValue(call.query)
            /\ request.params[2].value = StrValue(Declarations(call.params, n))
            /\ n = 0 => request.params[2].value.str = ""
            /\ \A i \in 1..n :
                  /\ request.params[2 + i].name = "@P" \o ToString(i)
                  /\ request.params[2 + i].value = call.params[i]

\* the request was built for a text of two lines and went out: its first
\* parameter holds a carriage return the text did not have
RpcParameterListWitness ==
    /\ RequestBuilt /\ result.op = "Client::rpc_perform_query" /\ result.ok
    /\ call.query = <<"s", "\n">>
    /\ call.request.params[1].value.text = <<"s", "\n", "\r">>
    /\ Len(call.request.params) = 4
    /\ call.request.params[2].value.str = "@P1 int,@P2 nvarchar(max)"

\* ---------------------------------------------------------------------------
\* ColumnData::encode and ColumnData::decode under a TypeInfo
\* ---------------------------------------------------------------------------

\* the variants ColumnData::decode produces under a TypeInfo
VariantsOf(ti) ==
    CASE ti.kind = "FixedLen" ->
            CASE ti.ty \in {"Bit", "Null"} -> {"Bit"}
              [] ti.ty = "Int1" -> {"U8"}
              [] ti.ty = "Int2" -> {"I16"}
              [] ti.ty = "Int4" -> {"I32"}
              [] ti.ty = "Int8" -> {"I64"}
              [] ti.ty = "Float4" -> {"F32"}
              [] ti.ty = "Datetime" -> {"DateTime"}
              [] ti.ty = "Datetime4" -> {"SmallDateTime"}
              [] OTHER -> {"F64"}
      [] ti.kind = "VarLenSized" ->
            CASE ti.ty = "Bitn" -> {"Bit"}
              [] ti.ty = "Intn" -> {"U8", "I16", "I32", "I64"}
              [] ti.ty \in {"Floatn", "Money"} -> {"F32", "F64"}
              [] ti.ty = "Guid" -> {"Guid"}
              [] ti.ty \in {"NVarchar", "NChar", "BigVarChar", "BigChar", "Text", "NText"} ->
                    {"String"}
              [] ti.ty \in {"BigVarBin", "BigBinary", "Image"} -> {"Binary"}
              [] ti.ty = "Datetimen" -> {"DateTime", "SmallDateTime"}
              [] ti.ty = "Daten" -> {"Date"}
              [] ti.ty = "Timen" -> {"Time"}
              [] ti.ty = "Datetime2" -> {"DateTime2"}
              [] ti.ty = "DatetimeOffsetn" -> {"DateTimeOffset"}
              [] OTHER -> {}
      [] ti.kind = "VarLenSizedPrecision" -> {"Numeric"}
      [] OTHER -> {"Xml"}

\* the TypeInfo describes the value exactly: its type, its width and its scale
Supported(ti, value) ==
    LET var == value.variant
        v == value.v
    IN  CASE ti.kind = "FixedLen" ->
                value.some /\ ti.ty # "Money" /\ var \in VariantsOf(ti)
          [] ti.kind = "VarLenSized" ->
                CASE ti.ty = "Intn" ->
                        <<ti.len, var>> \in {<<1, "U8">>, <<2, "I16">>, <<4, "I32">>,
                                             <<8, "I64">>}
                  [] ti.ty = "Floatn" -> <<ti.len, var>> \in {<<4, "F32">>, <<8, "F64">>}
                  [] ti.ty = "Datetimen" ->
                        <<ti.len, var>> \in {<<4, "SmallDateTime">>, <<8, "DateTime">>}
                  [] ti.ty = "Timen" -> var = "Time" /\ (value.some => v[2] = ti.len)
                  [] ti.ty = "Datetime2" ->
                        var = "DateTime2" /\ (value.some => v[3] <= ti.len)
                  [] ti.ty = "DatetimeOffsetn" ->
                        var = "DateTimeOffset" /\ (value.some => v[3] = ti.len)
                  [] ti.ty \in {"Text", "NText", "Image", "Money"} -> FALSE
                  [] OTHER -> var \in VariantsOf(ti)
          [] ti.kind = "VarLenSizedPrecision" ->
                var = "Numeric" /\ (value.some => v[2] = ti.scale)
          [] OTHER -> var = "Xml"

\* the length of a string or a binary in the encoding of the TypeInfo
EncodedLength(ti, value) ==
    IF ti.ty \in {"NVarchar", "NChar"} THEN Len(Units(EncodeUtf16(value.v)))
    ELSE Len(value.v)

\* the value can be written under the TypeInfo: a string has its characters
\* in the collation's encoding, a string or a binary is within the declared
\* length
Fits(ti, value) ==
    value.some /\ value.variant \in {"String", "Binary"} =>
        /\ ti.ty \in {"BigVarChar", "BigChar"} =>
               \A i \in 1..Len(value.v) : Mappable(value.v[i])
        /\ EncodedLength(ti, value) <= ti.len

MaxType(ti) ==
    /\ IsVarLen(ti, {"NVarchar", "NChar", "BigVarChar", "BigChar", "BigVarBin", "BigBinary"})
    /\ ti.len >= MaxLength

ValueEncoded == call.fn \in {"ColumnData::decode", "read_u8", "done"}
ValueDecoded == call.fn \in {"read_u8", "done"}

Mismatch(ti, value) ==
    \/ value.variant \notin VariantsOf(ti)
    \/ ti.kind = "FixedLen" /\ ~value.some

\* C28: encoding a value under a TypeInfo whose type does not match the value's
\* variant fails with the encoding error BulkInput: a 32-bit integer, NULL or
\* not, under a float type, and a NULL under a fixed-length non-nullable type.
MismatchIsBulkInput ==
    ValueEncoded /\ Mismatch(call.ti, call.value) =>
        ~call.encoded.ok /\ call.encoded.err = "BulkInput"

MismatchIsBulkInputWitness ==
    /\ ValueEncoded
    /\ call.value = None("I32")
    /\ call.ti = FixedLen("Int4")
    /\ call.encoded = EncodeErr("BulkInput")

\* C29: a string or a binary longer, once encoded, than the length of an
\* explicit (non-max) TypeInfo of its type fails with an encoding error: the
\* encoder neither succeeds with a shorter value nor panics.
TooLongIsAnError ==
    /\ ValueEncoded
    /\ call.value.some /\ call.value.variant \in {"String", "Binary"}
    /\ call.value.variant \in VariantsOf(call.ti)
    /\ call.ti.len < MaxLength
    /\ EncodedLength(call.ti, call.value) > call.ti.len
    => /\ ~call.encoded.ok
       /\ call.encoded.err \in {"BulkInput", "Encoding"}

TooLongIsAnErrorWitness ==
    /\ ValueEncoded
    /\ call.ti = VarLenSized("NVarchar", 2, "none")
    /\ call.value = Some("String", <<97, 233>>)
    /\ ~call.encoded.ok /\ call.encoded.err = "BulkInput"

\* ---------------------------------------------------------------------------
\* QueryStream::into_results
\* ---------------------------------------------------------------------------

\* the positions of the COLMETADATA tokens of a response, and the k-th of them
MetaAt(tokens) == {i \in 1..Len(tokens) : IsColMetaData(tokens[i])}
NthMeta(tokens, k) ==
    CHOOSE i \in MetaAt(tokens) : Cardinality({j \in MetaAt(tokens) : j <= i}) = k

IsRowToken(token) == token.ty \in {"Row", "NbcRow"}

\* the rows of the k-th result set: those between the k-th COLMETADATA token
\* and the next one
RowsOfSet(tokens, k) ==
    LET from == NthMeta(tokens, k)
        to == IF k = Cardinality(MetaAt(tokens)) THEN Len(tokens)
              ELSE NthMeta(tokens, k + 1) - 1
        rows == SelectSeq(SubSeq(tokens, from + 1, to), IsRowToken)
    IN  [i \in 1..Len(rows) |-> RowItem(tokens[from].a, rows[i].a, k - 1)]

ResultSets(tokens) == [k \in 1..Cardinality(MetaAt(tokens)) |-> RowsOfSet(tokens, k)]

IntoResultsOk ==
    /\ call.fn = "returned"
    /\ op = "none" /\ result.op = "QueryStream::into_results" /\ result.ok

\* C30: into_results returns one row vector per result set of the response, in
\* the order of the queries: for a response with m COLMETADATA tokens the outer
\* vector has m entries, and entry k holds exactly the rows received after the
\* k-th COLMETADATA and before the next one, also when a result set has no row.
OneVectorPerResultSet ==
    IntoResultsOk => call.results = ResultSets(srv.full)

\* two result sets with rows come back as two vectors, the rows in order
OneVectorPerResultSetWitness ==
    /\ IntoResultsOk
    /\ Len(call.results) = 2
    /\ call.results[1] = <<RowItem(1, 1, 0), RowItem(1, 2, 0)>>
    /\ call.results[2] = <<RowItem(2, 3, 1)>>
    /\ call.results = ResultSets(srv.full)

\* ---------------------------------------------------------------------------
\* MssqlConnection::batch_execute and MssqlTransactionManager
\* ---------------------------------------------------------------------------

\* C31: when batch_execute receives the server error 3903 with state 1 and
\* class 16 it resets the transaction manager status to a valid status with no
\* open transaction and returns NotInTransaction; every other error leaves
\* the status as it was.
BatchExecuteResets ==
    call.fn = "batch_execute" /\ ~call.r.ok =>
        IF call.r = TokenError(3903, 1, 16)
        THEN call.status = ValidStatus(0, FALSE) /\ call.ret = "NotInTransaction"
        ELSE call.status = call.before /\ call.ret # "NotInTransaction"

BatchExecuteResetsWitness ==
    /\ call.fn = "batch_execute"
    /\ call.r = TokenError(3903, 1, 16)
    /\ call.before = ValidStatus(2, FALSE)
    /\ call.status = ValidStatus(0, FALSE)
    /\ call.ret = "NotInTransaction"

\* the calls of the transaction manager on a valid status whose statement
\* has succeeded: what is sent and how the depth moves
SuccessfulCalls ==
    call.before.valid /\ call.r.ok =>
        LET n == call.before.depth
        IN  /\ call.fn = "begin_transaction" =>
                /\ n = 0 => call.sql = <<"BEGIN TRANSACTION">>
                /\ n > 0 => call.sql = <<"SAVE TRANSACTION diesel_savepoint_" \o ToString(n)>>
                /\ call.status.depth = n + 1 /\ call.ret = "Ok"
                /\ n > 0 => call.saves = Append(call.open, "diesel_savepoint_" \o ToString(n))
            /\ call.fn = "rollback_transaction" /\ n > 0 =>
                /\ n = 1 => call.sql = <<"ROLLBACK">>
                /\ n > 1 =>
                      /\ call.sql = <<"ROLLBACK TRANSACTION " \o call.open[Len(call.open)]>>
                      /\ call.sql = <<"ROLLBACK TRANSACTION diesel_savepoint_"
                                        \o ToString(n - 1)>>
                      /\ Len(call.open) = n - 1
                /\ call.status.depth = n - 1 /\ call.ret = "Ok"
            /\ call.fn = "commit_transaction" /\ n > 0 =>
                /\ n = 1 => call.sql = <<"COMMIT">>
                /\ call.status.depth = n - 1 /\ call.ret = "Ok"
            /\ call.fn \in {"commit_transaction", "rollback_transaction"} /\ n = 0 =>
                /\ call.ret = "NotInTransaction" /\ call.sql = <<>>
                /\ call.status = call.before

FailedBegin == call.fn = "begin_transaction" /\ call.before.valid /\ ~call.r.ok

\* C32, as amended: begin at depth None sends BEGIN TRANSACTION and at depth n
\* SAVE TRANSACTION diesel_savepoint_n, raising the depth by one; rollback at
\* depth 1 sends ROLLBACK and at depth n > 1 targets the savepoint created by
\* the begin that raised the depth to n; commit at depth 1 sends COMMIT; each
\* successful commit or rollback lowers the depth by one; commit or rollback at
\* depth None returns NotInTransaction without sending SQL; a failed begin
\* leaves the depth unchanged unless the failure is the server error 3903
\* (state 1, class 16), which resets the depth to None.
TransactionDepth ==
    /\ SuccessfulCalls
    /\ FailedBegin =>
          IF call.r = TokenError(3903, 1, 16) THEN call.status.depth = 0
          ELSE call.status.depth = call.before.depth

\* a rollback to the savepoint of the innermost of three nested transactions
TransactionDepthWitness ==
    /\ call.fn = "rollback_transaction" /\ call.r.ok
    /\ call.before.depth = 3 /\ call.status.depth = 2
    /\ call.open = <<"diesel_savepoint_1", "diesel_savepoint_2">>
    /\ call.sql = <<"ROLLBACK TRANSACTION diesel_savepoint_2">>
    /\ call.saves = <<"diesel_savepoint_1">>

\* C32, as stated: the same, and every failed begin leaves the depth
\* unchanged.
TransactionDepthKeptOnFailure ==
    /\ SuccessfulCalls
    /\ FailedBegin => call.status.depth = call.before.depth

\* ---------------------------------------------------------------------------
\* TlsPreloginWrapper
\* ---------------------------------------------------------------------------
IsPrefixOf(a, b) == Len(a) <= Len(b) /\ a = SubSeq(b, 1, Len(a))

\* C33: while the handshake is pending a write puts nothing on the stream; a
\* flush with buffered data emits exactly one PRELOGIN packet with status
\* EndOfMessage whose header length is the length of the data plus 8, followed
\* by the data in the order written, and a flush without data emits nothing; a
\* read strips the 8-byte headers and returns payload bytes only, never beyond
\* the payload of the current packet; after handshake_complete read and write
\* pass the bytes through unchanged.
ShimFramesFlights ==
    /\ call.fn = "write" /\ call.was.pending =>
          call.emitted = <<>> /\ call.data = call.was.data \o call.arg
    /\ call.fn = "flush" /\ call.was.pending /\ call.k = "ok" =>
          IF call.was.data = <<>> THEN call.emitted = <<>>
          ELSE call.emitted = <<18, 1, 0, Len(call.was.data) + 8, 0, 0, 0, 0>>
                                  \o call.was.data
    /\ call.fn = "read" /\ call.was.pending /\ call.k = "ok" =>
          IF call.was.rest = <<>> THEN call.got = <<>>
          ELSE IsPrefixOf(call.got, Head(call.was.rest))
    /\ call.fn = "write" /\ ~call.was.pending =>
          call.emitted # <<>> /\ IsPrefixOf(call.emitted, call.arg)
    /\ call.fn = "read" /\ ~call.was.pending =>
          call.was.inp = call.got \o call.inp
    /\ call.fn = "flush" /\ ~call.was.pending => call.emitted = <<>>

\* a read into a buffer that the header and the payload of the first packet
\* do not fill returns the payload alone, the next packet staying on the
\* stream
ShimFramesFlightsWitness ==
    /\ call.fn = "read" /\ call.was.pending /\ call.k = "ok"
    /\ Len(call.got) = MaxBody
    /\ call.was.inp = <<18, 1, 0, 8 + MaxBody, 0, 0, 0, 0>> \o call.got \o call.inp
    /\ Len(call.inp) > HEADER_BYTES
    /\ call.nf > 0

\* C34: send first writes buffered bytes to the stream until the buffer is
\* below the high-water mark and then appends the encoded packet, so that on
\* return the buffer holds less than the mark plus one encoded packet; the
\* bytes reach the stream in the order of the sends.
FramedSendBounded ==
    LET w == framed_write
        kept == Len(w.buffer) - Len(w.encoded)
    IN  /\ (w.pos = "idle" /\ w.last.fn = "send" /\ w.last.k = "ok") =>
              /\ kept >= 0 /\ kept < w.high_water_mark
              /\ SubSeq(w.buffer, kept + 1, Len(w.buffer)) = w.encoded
              /\ Len(w.buffer) < w.high_water_mark + Len(w.encoded)
        /\ IsPrefixOf(w.out, w.passed)

\* with a mark of one header the second send has written part of the first
\* packet before it appended its own, and the buffer is above the mark
FramedSendBoundedWitness ==
    /\ framed_write.pos = "idle"
    /\ framed_write.last.fn = "send" /\ framed_write.last.k = "ok"
    /\ framed_write.nsent = 2
    /\ framed_write.high_water_mark = HEADER_BYTES
    /\ framed_write.out # <<>>
    /\ Len(framed_write.buffer) > framed_write.high_water_mark
    /\ Len(framed_write.buffer) > Len(framed_write.encoded)

\* ---------------------------------------------------------------------------
\* QueryStream::columns
\* ---------------------------------------------------------------------------

\* the surfaced tokens decoded from the first COLMETADATA on, and the item
\* that next is to yield for the i-th of them
Surfaced == SelectSeq(SubSeq(srv.full, FirstMeta, ndec), IsSurfaced)
ItemFor(tokens, i) ==
    LET metas == {j \in 1..i : tokens[j].ty = "ColMetaData"}
        last == CHOOSE j \in metas : \A m \in metas : m <= j
    IN  IF tokens[i].ty = "ColMetaData"
        THEN MetadataItem(tokens[i].a, Cardinality(metas) - 1)
        ELSE RowItem(tokens[last].a, tokens[i].a, Cardinality(metas) - 1)

\* the token the QueryStream has peeked and not yielded
HeldBack == IF qs.peeked.k = "Ok" THEN 1 ELSE 0

\* the columns of the result set whose Metadata item was yielded last
CurrentColumns ==
    LET metas == SelectSeq(items, IsMetadata)
    IN  IF metas = <<>> THEN 0 ELSE metas[Len(metas)].a

\* C35: QueryStream::columns never consumes a COLMETADATA or ROW token:
\* whatever calls of columns lie between the calls of next, next yields the
\* items of the surfaced tokens in order; columns returns the columns of the
\* upcoming result set when the next surfaced token is COLMETADATA and those
\* of the current result set otherwise.
ColumnsKeepsItems ==
    qs.alive =>
        /\ items = [i \in 1..(Len(Surfaced) - HeldBack) |-> ItemFor(Surfaced, i)]
        /\ qs.peeked.k = "Ok" =>
              qs.peeked.tok = Received(Surfaced[Len(Surfaced)])
        /\ (op = "none" /\ result.op = "QueryStream::columns" /\ result.ok) =>
              result.item =
                 ColumnsItem(IF qs.peeked.k = "Ok" /\ qs.peeked.tok.ty = "NewResultset"
                             THEN qs.peeked.tok.a ELSE CurrentColumns)

\* columns has consumed the DONE after the row of the first result set and
\* returned the columns of the second, whose COLMETADATA is still to be yielded
ColumnsKeepsItemsWitness ==
    /\ qs.alive /\ op = "none"
    /\ result.op = "QueryStream::columns" /\ result.item = ColumnsItem(2)
    /\ items = <<MetadataItem(1, 0), RowItem(1, 1, 0)>>
    /\ srv.full[ndec - 1].ty = "Done" /\ srv.full[ndec] = ColMetaData(2)
    /\ CurrentColumns = 1

\* ---------------------------------------------------------------------------
\* the flag `flushed` and a send that fails to encode
\* ---------------------------------------------------------------------------

\* no call is under way on the connection, or flush_stream is about to read
\* the flag
FlagRead == (op = "none" /\ phase = "Ready") \/ (Step = "flush_stream" /\ sub = "start")

\* C36: `flushed` is true exactly when the packet received last carried the
\* end-of-message status and no packet has been written since; is_eof is true
\* only when the whole response has been received and consumed.
FlushedIffResponseComplete ==
    /\ FlagRead => (flushed <=> srv.fresh)
    /\ IsEof => (srv.fresh /\ buf = <<>> /\ srv.tok = NoTok)

\* a request has failed to encode after the response before it was read to
\* its last packet: nothing was written, and the flag is down
FlagDownAfterEncodeError ==
    /\ op = "none" /\ phase = "Ready"
    /\ ~result.ok /\ result.err = EncodeError
    /\ srv.fresh /\ ~flushed
    /\ wire = <<>> /\ srv.resp = 0

\* C38: when send fails while it encodes its item no packet is written and
\* the connection stays usable: the next flush_stream does not wait for the
\* response to a request that was never sent.
EncodeErrorKeepsUsable ==
    /\ (op = "none" /\ ~result.ok /\ result.err = EncodeError) =>
          (wire = <<>> /\ payload = <<>>)
    /\ (Step = "flush_stream" /\ sub \in {"loop", "blocked"}) => ~srv.fresh

\* flush_stream waits for a packet although the server owes none: the request
\* before it was never sent
FlushWaitsForNothing ==
    /\ Step = "flush_stream" /\ sub = "blocked"
    /\ srv.fresh /\ srv.resp = 0 /\ ~srv.closed
    /\ discarded.n = 0


\* C37: for a response of well-framed packets that ends with an end-of-message
\* packet and whose payloads are a run of complete tokens, however the tokens are
\* split over the packets and also when the last packet has an empty payload,
\* the token iterator never asks the transport for a packet that the server
\* does not owe: it does not wait after the end-of-message packet
IteratorStopsAtEndOfMessage ==
    ~(Step \in FoldSteps /\ sub = "blocked")

\* every token of the response was decoded and its end-of-message packet, with
\* an empty payload, was received, yet Connection::read waits for a packet
ReadWaitsAfterEndOfMessage ==
    /\ Step \in FoldSteps /\ sub = "blocked"
    /\ srv.mode = "scripted" /\ srv.resp = 0 /\ srv.fresh
    /\ IsEof
    /\ ndec >= 1


\* C39: Connection::flush_stream leaves the Context unchanged, whatever tokens
\* the packets it discards hold (an ENVCHANGE or COLMETADATA token in them
\* changes neither the packet size, nor the transaction descriptor, nor the
\* last metadata); and when `flushed` is already true it takes no packet from
\* the transport and only empties the payload buffer
FlushStreamKeepsContext ==
    [][(Step = "flush_stream" /\ sub \in {"start", "loop"}) =>
          /\ context' = context
          /\ (sub = "start" /\ flushed) =>
                (srv' = srv /\ flushed' /\ buf' = <<>> /\ discarded'.n = 0
                 /\ ret' = Ret("flush_stream", TRUE, NoErr, NoTok))]_vars

\* flush_stream has returned after discarding a packet with a token that
\* would have changed the Context had it been decoded
FlushStreamKeepsContextWitness ==
    /\ ret = Ret("flush_stream", TRUE, NoErr, NoTok)
    /\ discarded.n >= 1 /\ discarded.changing
    /\ srv.mode = "scripted" /\ srv.fresh


\* C40: Connection::send terminates for every message and every packet size
\* the server can announce through ENVCHANGE: each packet written takes at
\* least one byte from the remaining payload, so the packets written and the
\* bytes still to write never exceed the length of the message, and the loop
\* ends and is followed by the one flush of the sink
SendLoopShrinksPayload ==
    (Step \in SendSteps /\ sub = "loop") => Len(wire) + Len(payload) <= Len(msg)

\* the server announced a packet size of HEADER_BYTES; the next send has
\* written packet after packet with an empty payload and still holds the
\* whole message
SendWritesEmptyPackets ==
    /\ srv.mode = "scripted" /\ nreq >= 2
    /\ context.packet_size = HEADER_BYTES
    /\ Step \in SendSteps /\ sub = "loop"
    /\ Len(wire) = MaxWire /\ payload = msg /\ msg # <<>>
    /\ \A i \in 1..Len(wire) :
          wire[i].data = <<>> /\ wire[i].header.status = "NormalMessage"

====
